---- MODULE Spec2Model ----
(***************************************************************************)
(* A model of velox::exec::VectorHasher (src/velox/exec/VectorHasher.cpp): *)
(* the per-column value-id engine.  One Hasher is modelled together with   *)
(* the caller's selection vector and result buffer of the call in flight.  *)
(*                                                                         *)
(* Scaling.  TLC's integers are 32 bits wide, so the 64-bit machine word   *)
(* is modelled as a 4-bit word: int64_t is the two's-complement range      *)
(* kMin..kMax = -8..7 and uint64_t is arithmetic modulo Two64 = 16.  A     *)
(* string is a sequence of bytes, a byte is one bit wide, a word holds     *)
(* kInt64Bytes = 4 bytes and kStringASRangeMaxSize = 3 (one byte less than *)
(* a word, as 7 is one less than 8).  The budgets kMaxDistinct,            *)
(* kMaxDistinctStringsBytes and kStringBufferUnitSize are scaled down the  *)
(* same way so that the overflow paths are reached.                        *)
(*                                                                         *)
(* VectorHasher.h is not part of the source slice.  The members it defines *)
(* (valueId, lookupValueId, analyzeValue<T> for integers, updateRange,     *)
(* stringAsNumber, tryMapToRange, analyzeTyped, the constants and the      *)
(* constructor) are modelled from the specification.                       *)
(***************************************************************************)
EXTENDS Integers, Sequences, FiniteSets, TLC

(***************************************************************************)
(* Machine words.                                                          *)
(***************************************************************************)
kMax == 7
kMin == -8
Two64 == kMax - kMin + 1

\* A mathematical integer stored into a uint64_t.
ToU64(x) == x % Two64

kUnmappable == Two64 - 1
kRangeTooLarge == Two64 - 1
kNullHash == 0

kMaxDistinct == 2
kStringASRangeMaxSize == 3
kInt64Bytes == 4
kStringBufferUnitSize == 6
kMaxDistinctStringsBytes == 4

(***************************************************************************)
(* Bounds of the model.                                                    *)
(***************************************************************************)
MaxRows == 2

(***************************************************************************)
(* The values of a column.  A BIGINT value is an integer of kMin..kMax; a  *)
(* VARCHAR value is a sequence of bytes.  The integers hold both extremes   *)
(* of the word and two neighbours (6 and kMax); the strings hold two short *)
(* ones that differ only in a trailing zero byte and two that are longer   *)
(* than a word.                                                            *)
(***************************************************************************)
TypeKinds == {"BIGINT", "VARCHAR"}

IntVals == {kMin, 6, kMax}

LongA == <<1, 1, 1, 1, 1>>
LongB == <<0, 0, 0, 0, 1>>
StrVals == {<<1>>, <<1, 0>>, LongA, LongB}

\* A BOOLEAN value is 0 (false) or 1 (true).  BOOLEAN Hashers take part in
\* the analysis-domain specification only (AllTypeKinds).
BoolVals == {0, 1}

AllTypeKinds == TypeKinds \cup {"BOOLEAN"}

ValsOf(kind) ==
    IF kind = "VARCHAR" THEN StrVals
    ELSE IF kind = "BOOLEAN" THEN BoolVals
    ELSE IntVals

\* The base vector of a dictionary batch: every value of the kind once.
BaseOf(kind) ==
    IF kind = "VARCHAR" THEN << <<1>>, <<1, 0>>, LongA, LongB >>
    ELSE IF kind = "BOOLEAN" THEN <<0, 1>>
    ELSE <<kMin, 6, kMax>>

Multipliers == {1, 3}
Reserves == {0}

(***************************************************************************)
(* stringAsNumber: the bytes, zero-padded to a word, read little-endian.   *)
(***************************************************************************)
RECURSIVE stringAsNumber(_)
stringAsNumber(data) ==
    IF data = <<>> THEN 0 ELSE Head(data) + 2 * stringAsNumber(Tail(data))

(***************************************************************************)
(* updateRange(value): the first value sets min_ = max_ = value, a later   *)
(* one widens the envelope.                                                *)
(***************************************************************************)
updateRange(h, value) ==
    IF h.hasRange_
    THEN [h EXCEPT !.min_ = IF value < @ THEN value ELSE @,
                   !.max_ = IF value > @ THEN value ELSE @]
    ELSE [h EXCEPT !.hasRange_ = TRUE, !.min_ = value, !.max_ = value]

(***************************************************************************)
(* The distinct table: entries in insertion order.  An entry is            *)
(* [data, id, ptr]; ptr says where the bytes of the entry live: "inline"   *)
(* (in the entry's own word), "local" (uniqueValuesStorage_), "input" (the *)
(* caller's buffer the value was read from) or "peer" (the storage of a    *)
(* merged Hasher).                                                         *)
(***************************************************************************)
Contains(uniqueValues, value) ==
    \E i \in 1..Len(uniqueValues) : uniqueValues[i].data = value

IdOf(uniqueValues, value) ==
    LET i == CHOOSE j \in 1..Len(uniqueValues) : uniqueValues[j].data = value
    IN uniqueValues[i].id

Size(value, kind) == IF kind = "VARCHAR" THEN Len(value) ELSE kInt64Bytes

\* UniqueValue(data, size): up to a word the bytes are held in the entry.
UniqueValue(value, kind, id) ==
    [data |-> value, id |-> id,
     ptr |-> IF Size(value, kind) <= kInt64Bytes THEN "inline" ELSE "input"]

(***************************************************************************)
(* copyStringToLocal(unique): 'i' is the position of the new entry.        *)
(***************************************************************************)
Max2(a, b) == IF a > b THEN a ELSE b

copyStringToLocal(h, i) ==
    LET size == Len(h.uniqueValues_[i].data)
        store == h.uniqueValuesStorage_
        n == Len(store)
        fresh == [capacity |-> Max2(kStringBufferUnitSize, size), size |-> size]
    IN IF size <= kInt64Bytes THEN h
       ELSE IF h.distinctStringsBytes_ > kMaxDistinctStringsBytes
       THEN [h EXCEPT !.distinctOverflow_ = TRUE]
       ELSE IF n = 0 \/ store[n].size + size > store[n].capacity
       THEN [h EXCEPT !.uniqueValuesStorage_ = Append(store, fresh),
                      !.distinctStringsBytes_ = @ + fresh.capacity,
                      !.uniqueValues_[i].ptr = "local"]
       ELSE [h EXCEPT !.uniqueValuesStorage_[n].size = @ + size,
                      !.uniqueValues_[i].ptr = "local"]

(***************************************************************************)
(* analyzeValue.                                                           *)
(***************************************************************************)
\* A faulty analyzeValueString that keeps updating the range after
\* rangeOverflow_ is set; C31_FlagsSticky tells it from analyzeValueString.
analyzeValueStringKeepsRanging(h, value) ==
    LET size == Len(value)
        h1 == IF size > kStringASRangeMaxSize
              THEN [h EXCEPT !.rangeOverflow_ = TRUE]
              ELSE updateRange(h, stringAsNumber(value))
        unique == UniqueValue(value, "VARCHAR", Len(h1.uniqueValues_) + 1)
        h2 == [h1 EXCEPT !.uniqueValues_ = Append(@, unique)]
    IN IF h1.distinctOverflow_ \/ Contains(h1.uniqueValues_, value) THEN h1
       ELSE IF Len(h2.uniqueValues_) > kMaxDistinct
       THEN [h2 EXCEPT !.distinctOverflow_ = TRUE]
       ELSE copyStringToLocal(h2, Len(h2.uniqueValues_))

analyzeValueString(h, value) ==
    LET size == Len(value)
        h1 == IF ~h.rangeOverflow_
              THEN IF size > kStringASRangeMaxSize
                   THEN [h EXCEPT !.rangeOverflow_ = TRUE]
                   ELSE updateRange(h, stringAsNumber(value))
              ELSE h
        unique == UniqueValue(value, "VARCHAR", Len(h1.uniqueValues_) + 1)
        h2 == [h1 EXCEPT !.uniqueValues_ = Append(@, unique)]
    IN IF h1.distinctOverflow_ \/ Contains(h1.uniqueValues_, value) THEN h1
       ELSE IF Len(h2.uniqueValues_) > kMaxDistinct
       THEN [h2 EXCEPT !.distinctOverflow_ = TRUE]
       ELSE copyStringToLocal(h2, Len(h2.uniqueValues_))

analyzeValueInt(h, value) ==
    LET h1 == IF ~h.rangeOverflow_ THEN updateRange(h, value) ELSE h
        unique == UniqueValue(value, "BIGINT", Len(h1.uniqueValues_) + 1)
        h2 == [h1 EXCEPT !.uniqueValues_ = Append(@, unique)]
    IN IF h1.distinctOverflow_ \/ Contains(h1.uniqueValues_, value) THEN h1
       ELSE IF Len(h2.uniqueValues_) > kMaxDistinct
       THEN [h2 EXCEPT !.distinctOverflow_ = TRUE]
       ELSE h2

analyzeValue(h, value) ==
    IF h.typeKind_ = "VARCHAR" THEN analyzeValueString(h, value)
    ELSE analyzeValueInt(h, value)

(***************************************************************************)
(* valueId and lookupValueId.  In range mode a value inside [min_, max_]   *)
(* maps to value - min_ + 1, held in a uint64_t; a string takes part with  *)
(* stringAsNumber and is unmappable when longer than                       *)
(* kStringASRangeMaxSize.  In distinct mode the id is the one stored in    *)
(* the table; a miss is unmappable.                                        *)
(***************************************************************************)
toInt64(h, value) ==
    IF h.typeKind_ = "VARCHAR" THEN stringAsNumber(value) ELSE value

hasNumber(h, value) ==
    h.typeKind_ # "VARCHAR" \/ Len(value) <= kStringASRangeMaxSize

valueId(h, value) ==
    IF h.typeKind_ = "BOOLEAN" THEN value + 1   \* false -> 1, true -> 2
    ELSE IF h.isRange_
    THEN IF ~hasNumber(h, value) THEN kUnmappable
         ELSE LET n == toInt64(h, value)
              IN IF n > h.max_ \/ n < h.min_ THEN kUnmappable
                 ELSE ToU64(n - h.min_ + 1)
    ELSE IF Contains(h.uniqueValues_, value) THEN IdOf(h.uniqueValues_, value)
         ELSE kUnmappable

lookupValueId(h, value) == valueId(h, value)

(***************************************************************************)
(* The decoded view of a batch of MaxRows rows.  'enc' is "flat" (identity *)
(* mapping), "const" (constant mapping) or "dict"; the value of row r is   *)
(* base[indices[r]] and nulls[r] tells whether the row is null.            *)
(***************************************************************************)
Rows == 1..MaxRows

isConstantMapping(d) == d.enc = "const"
isIdentityMapping(d) == d.enc = "flat"
isNullAt(d, row) == d.nulls[row]
mayHaveNulls(d) == \E r \in DOMAIN d.nulls : d.nulls[r]
index(d, row) == d.indices[row]
valueAt(d, row) == d.base[d.indices[row]]

\* SelectivityVector::begin(): the first selected row, the first row of the
\* vector when nothing is selected.
begin(rows) == IF rows = {} THEN 1 ELSE CHOOSE r \in rows : \A q \in rows : r <= q

IndexIn(base, value) == CHOOSE i \in 1..Len(base) : base[i] = value

Default(kind) == BaseOf(kind)[1]

\* The logical sequences of a kind: a value of a null row is not read, so
\* it is fixed to the default.
Logical(kind) ==
    {l \in [vals : [Rows -> ValsOf(kind)], nulls : [Rows -> BOOLEAN]] :
        \A r \in Rows : l.nulls[r] => l.vals[r] = Default(kind)}

FlatView(l) ==
    [enc |-> "flat", base |-> l.vals, indices |-> [r \in DOMAIN l.vals |-> r],
     nulls |-> l.nulls]

DictView(l, kind) ==
    [enc |-> "dict", base |-> BaseOf(kind),
     indices |-> [r \in DOMAIN l.vals |-> IndexIn(BaseOf(kind), l.vals[r])],
     nulls |-> l.nulls]

ConstView(l) ==
    [enc |-> "const", base |-> <<l.vals[1]>>,
     indices |-> [r \in DOMAIN l.vals |-> 1],
     nulls |-> l.nulls]

IsConstant(l) ==
    \A r \in DOMAIN l.vals : l.vals[r] = l.vals[1] /\ l.nulls[r] = l.nulls[1]

Batches(kind) ==
    {FlatView(l) : l \in Logical(kind)}
        \cup {DictView(l, kind) : l \in Logical(kind)}
        \cup {ConstView(l) : l \in {x \in Logical(kind) : IsConstant(x)}}

\* A faulty emit that adds to the partial key also when multiplier_ is 1;
\* C8_Emission tells it from emit.
emitAlwaysAdds(h, result, row, id) ==
    [result EXCEPT ![row] = ToU64(@ + h.multiplier_ * id)]

(***************************************************************************)
(* result[row] = multiplier_ == 1 ? id : result[row] + multiplier_ * id    *)
(***************************************************************************)
emit(h, result, row, id) ==
    [result EXCEPT ![row] =
        IF h.multiplier_ = 1 THEN id ELSE ToU64(@ + h.multiplier_ * id)]

\* A faulty emitNull that writes 0 whatever the multiplier; C7_NullRows
\* tells it from emitNull.
emitNullAlwaysZero(h, result, row) == [result EXCEPT ![row] = 0]

\* if (multiplier_ == 1) { result[row] = 0; }
emitNull(h, result, row) ==
    IF h.multiplier_ = 1 THEN [result EXCEPT ![row] = 0] ELSE result

\* rows.applyToSelected(func): func on the selected rows in increasing order.
RECURSIVE applyToSelected(_, _, _, _)
applyToSelected(Step(_, _), st, rows, row) ==
    IF \A r \in rows : r < row THEN st
    ELSE applyToSelected(Step, IF row \in rows THEN Step(st, row) ELSE st,
                         rows, row + 1)

(***************************************************************************)
(* hash.  H is the hash of a value (folly::hasher<T>) and hashMix the      *)
(* combiner (bits::hashMix); neither is part of the source slice.  They    *)
(* are modelled as fixed functions into the word: H is deterministic, it   *)
(* depends on the value alone, some value hashes to kNullHash (H of 6 is   *)
(* 0) and two different values may share a hash; hashMix is not            *)
(* commutative.                                                            *)
(***************************************************************************)
RECURSIVE hashBytes(_, _)
hashBytes(seed, data) ==
    IF data = <<>> THEN seed
    ELSE hashBytes(ToU64(3 * seed + Head(data) + 1), Tail(data))

H(kind, value) ==
    IF kind = "VARCHAR" THEN hashBytes(0, value) ELSE ToU64(5 * value + 2)

hashMix(upper, lower) == ToU64(3 * upper + lower + 1)

hashOne(kind, d, row) == H(kind, valueAt(d, row))

\* A faulty mixInto that overwrites the accumulated hash; C13_HashWrites
\* tells it from mixInto.
mixIntoOverwrites(mix, result, row, hash) == [result EXCEPT ![row] = hash]

\* result[row] = mix ? bits::hashMix(result[row], hash) : hash
mixInto(mix, result, row, hash) ==
    [result EXCEPT ![row] = IF mix THEN hashMix(@, hash) ELSE hash]

hashValuesConstant(h, d, rows, mix, result) ==
    LET hash == IF isNullAt(d, begin(rows)) THEN kNullHash
                ELSE hashOne(h.typeKind_, d, begin(rows))
        Step(st, row) == [st EXCEPT !.result = mixInto(mix, @, row, hash)]
    IN applyToSelected(Step, [h |-> h, result |-> result], rows, 1)

hashValuesFlat(h, d, rows, mix, result) ==
    LET Step(st, row) ==
            IF isNullAt(d, row)
            THEN [st EXCEPT !.result = mixInto(mix, @, row, kNullHash)]
            ELSE [st EXCEPT !.result =
                                mixInto(mix, @, row, hashOne(h.typeKind_, d, row))]
    IN applyToSelected(Step, [h |-> h, result |-> result], rows, 1)

\* A faulty hashValuesDecoded that reads and fills the cache entry of base
\* index 1 for every row; C11_HashEncodingInvariant tells it from
\* hashValuesDecoded.
hashValuesDecodedOneEntry(h, d, rows, mix, result) ==
    LET Step(st, row) ==
            LET cached == st.h.cachedHashes_[1]
                hash == IF cached = kNullHash THEN hashOne(h.typeKind_, d, row)
                        ELSE cached
            IN IF isNullAt(d, row)
               THEN [st EXCEPT !.result = mixInto(mix, @, row, kNullHash)]
               ELSE [st EXCEPT !.h.cachedHashes_[1] = hash,
                               !.result = mixInto(mix, @, row, hash)]
        h0 == [h EXCEPT !.cachedHashes_ = [i \in 1..Len(d.base) |-> kNullHash]]
    IN applyToSelected(Step, [h |-> h0, result |-> result], rows, 1)

\* A faulty hashValuesDecoded that resizes cachedHashes_ and does not fill
\* it: entries left by an earlier call are taken for hashes of this batch;
\* C29_ScratchInvisible tells it from hashValuesDecoded.
hashValuesDecodedNoFill(h, d, rows, mix, result) ==
    LET Step(st, row) ==
            LET baseIndex == index(d, row)
                cached == st.h.cachedHashes_[baseIndex]
                hash == IF cached = kNullHash THEN hashOne(h.typeKind_, d, row)
                        ELSE cached
            IN IF isNullAt(d, row)
               THEN [st EXCEPT !.result = mixInto(mix, @, row, kNullHash)]
               ELSE [st EXCEPT !.h.cachedHashes_[baseIndex] = hash,
                               !.result = mixInto(mix, @, row, hash)]
        h0 == [h EXCEPT !.cachedHashes_ =
                  [i \in 1..Len(d.base) |->
                      IF i <= Len(h.cachedHashes_) THEN h.cachedHashes_[i]
                      ELSE kNullHash]]
    IN applyToSelected(Step, [h |-> h0, result |-> result], rows, 1)

\* cachedHashes_ holds the hash of each base index already hashed in this
\* batch, kNullHash meaning not yet hashed.
hashValuesDecoded(h, d, rows, mix, result) ==
    LET Step(st, row) ==
            LET baseIndex == index(d, row)
                cached == st.h.cachedHashes_[baseIndex]
                hash == IF cached = kNullHash THEN hashOne(h.typeKind_, d, row)
                        ELSE cached
            IN IF isNullAt(d, row)
               THEN [st EXCEPT !.result = mixInto(mix, @, row, kNullHash)]
               ELSE [st EXCEPT !.h.cachedHashes_[baseIndex] = hash,
                               !.result = mixInto(mix, @, row, hash)]
        h0 == [h EXCEPT !.cachedHashes_ = [i \in 1..Len(d.base) |-> kNullHash]]
    IN applyToSelected(Step, [h |-> h0, result |-> result], rows, 1)

\* hashValues: the loop state is [h, result].
hashValues(h, d, rows, mix, result) ==
    IF isConstantMapping(d) THEN hashValuesConstant(h, d, rows, mix, result)
    ELSE IF isIdentityMapping(d) THEN hashValuesFlat(h, d, rows, mix, result)
    ELSE hashValuesDecoded(h, d, rows, mix, result)

(***************************************************************************)
(* tryMapToRange: the vectorised range path of a flat integer batch.  It   *)
(* maps the batch only if every selected value lies in [min_, max_].       *)
(***************************************************************************)
tryMapToRange(h, d, rows) ==
    /\ h.typeKind_ # "VARCHAR"
    /\ \A r \in rows : valueId(h, valueAt(d, r)) # kUnmappable

(***************************************************************************)
(* makeValueIdsFlatNoNulls / makeValueIdsFlatWithNulls.  The loop state is *)
(* [h, result, success].                                                   *)
(***************************************************************************)
\* A faulty flatStep that analyses an unmappable value but does not report
\* it; C1_TrueIffMappable tells it from flatStep.
flatStepKeepsSuccess(d, st, row) ==
    LET value == valueAt(d, row)
        id == valueId(st.h, value)
    IN IF id = kUnmappable THEN [st EXCEPT !.h = analyzeValue(@, value)]
       ELSE [st EXCEPT !.result = emit(st.h, @, row, id)]

\* A faulty flatStep that stores kUnmappable as if it were an id before it
\* reports the failure; C27_UnmappableNotWritten tells it from flatStep.
flatStepWritesUnmappable(d, st, row) ==
    LET value == valueAt(d, row)
        id == valueId(st.h, value)
    IN IF ~st.success THEN [st EXCEPT !.h = analyzeValue(@, value)]
       ELSE IF id = kUnmappable
       THEN [st EXCEPT !.success = FALSE, !.h = analyzeValue(@, value),
                       !.result = emit(st.h, @, row, id)]
       ELSE [st EXCEPT !.result = emit(st.h, @, row, id)]

flatStep(d, st, row) ==
    LET value == valueAt(d, row)
        id == valueId(st.h, value)
    IN IF ~st.success THEN [st EXCEPT !.h = analyzeValue(@, value)]
       ELSE IF id = kUnmappable
       THEN [st EXCEPT !.success = FALSE, !.h = analyzeValue(@, value)]
       ELSE [st EXCEPT !.result = emit(st.h, @, row, id)]

makeValueIdsFlatNoNulls(h, d, rows, result) ==
    LET Step(st, row) == flatStep(d, st, row)
        mapped == applyToSelected(
                      LAMBDA st, row :
                          [st EXCEPT !.result =
                              emit(h, @, row, valueId(h, valueAt(d, row)))],
                      [h |-> h, result |-> result, success |-> TRUE], rows, 1)
    IN IF h.isRange_ /\ tryMapToRange(h, d, rows) THEN mapped
       ELSE applyToSelected(Step, [h |-> h, result |-> result, success |-> TRUE],
                            rows, 1)

makeValueIdsFlatWithNulls(h, d, rows, result) ==
    LET Step(st, row) ==
            IF isNullAt(d, row)
            THEN [st EXCEPT !.result = emitNull(st.h, @, row)]
            ELSE flatStep(d, st, row)
    IN applyToSelected(Step, [h |-> h, result |-> result, success |-> TRUE],
                       rows, 1)

(***************************************************************************)
(* makeValueIdsDecoded: cachedHashes_ holds the id of each base index      *)
(* already mapped in this batch, 0 meaning not yet mapped.                 *)
(***************************************************************************)
\* A faulty decodedStep that analyses an unmappable value but does not
\* report it; C12_FlatAndDictionaryAgree tells it from decodedStep.
decodedStepKeepsSuccess(d, st, row) ==
    LET baseIndex == index(d, row)
        cached == st.h.cachedHashes_[baseIndex]
        value == d.base[baseIndex]
        id == valueId(st.h, value)
    IN IF isNullAt(d, row) THEN [st EXCEPT !.result = emitNull(st.h, @, row)]
       ELSE IF cached # 0 THEN [st EXCEPT !.result = emit(st.h, @, row, cached)]
       ELSE IF id = kUnmappable THEN [st EXCEPT !.h = analyzeValue(@, value)]
       ELSE [st EXCEPT !.h.cachedHashes_[baseIndex] = id,
                       !.result = emit(st.h, @, row, id)]

\* A faulty decodedStep that stops analysing once a value was unmappable;
\* C33_AnalysisSameButRepeats tells it from decodedStep.
decodedStepStopsAnalysing(d, st, row) ==
    LET baseIndex == index(d, row)
        cached == st.h.cachedHashes_[baseIndex]
        value == d.base[baseIndex]
        id == valueId(st.h, value)
    IN IF isNullAt(d, row) THEN [st EXCEPT !.result = emitNull(st.h, @, row)]
       ELSE IF cached # 0 THEN [st EXCEPT !.result = emit(st.h, @, row, cached)]
       ELSE IF ~st.success THEN st
       ELSE IF id = kUnmappable
       THEN [st EXCEPT !.h = analyzeValue(@, value), !.success = FALSE]
       ELSE [st EXCEPT !.h.cachedHashes_[baseIndex] = id,
                       !.result = emit(st.h, @, row, id)]

decodedStep(d, st, row) ==
    LET baseIndex == index(d, row)
        cached == st.h.cachedHashes_[baseIndex]
        value == d.base[baseIndex]
        id == valueId(st.h, value)
    IN IF isNullAt(d, row) THEN [st EXCEPT !.result = emitNull(st.h, @, row)]
       ELSE IF cached # 0 THEN [st EXCEPT !.result = emit(st.h, @, row, cached)]
       ELSE IF ~st.success THEN [st EXCEPT !.h = analyzeValue(@, value)]
       ELSE IF id = kUnmappable
       THEN [st EXCEPT !.h = analyzeValue(@, value), !.success = FALSE]
       ELSE [st EXCEPT !.h.cachedHashes_[baseIndex] = id,
                       !.result = emit(st.h, @, row, id)]

makeValueIdsDecoded(h, d, rows, result) ==
    LET Step(st, row) == decodedStep(d, st, row)
        h0 == [h EXCEPT !.cachedHashes_ = [i \in 1..Len(d.base) |-> 0]]
    IN applyToSelected(Step, [h |-> h0, result |-> result, success |-> TRUE],
                       rows, 1)

(***************************************************************************)
(* makeValueIds: the constant path, then the dispatch on the encoding.     *)
(***************************************************************************)
makeValueIdsConstant(h, d, rows, result) ==
    LET id == IF isNullAt(d, begin(rows)) THEN 0
              ELSE valueId(h, valueAt(d, begin(rows)))
        Step(st, row) == [st EXCEPT !.result = emit(h, @, row, id)]
    IN IF id = kUnmappable
       THEN [h |-> analyzeValue(h, valueAt(d, begin(rows))), result |-> result,
             success |-> FALSE]
       ELSE applyToSelected(Step, [h |-> h, result |-> result, success |-> TRUE],
                            rows, 1)

\* The bool specializations (flat and decoded, with and without nulls):
\* every row gets its id, nothing is analysed, the answer is always true.
makeValueIdsBool(h, d, rows, result) ==
    LET Step(st, row) ==
            IF isNullAt(d, row) THEN [st EXCEPT !.result = emitNull(h, @, row)]
            ELSE [st EXCEPT !.result = emit(h, @, row, valueId(h, valueAt(d, row)))]
    IN applyToSelected(Step, [h |-> h, result |-> result, success |-> TRUE],
                       rows, 1)

makeValueIds(h, d, rows, result) ==
    IF isConstantMapping(d) THEN makeValueIdsConstant(h, d, rows, result)
    ELSE IF h.typeKind_ = "BOOLEAN" THEN makeValueIdsBool(h, d, rows, result)
    ELSE IF isIdentityMapping(d)
    THEN IF mayHaveNulls(d) THEN makeValueIdsFlatWithNulls(h, d, rows, result)
         ELSE makeValueIdsFlatNoNulls(h, d, rows, result)
    ELSE makeValueIdsDecoded(h, d, rows, result)

(***************************************************************************)
(* makeValueIdsForRows<VARCHAR>: the ids of the strings held by the rows   *)
(* of a row container, 'groups', from the first row on.  The loop returns  *)
(* at the first value without an id.                                       *)
(***************************************************************************)
\* A faulty makeValueIdsForRows that analyses the value it cannot map, as
\* makeValueIds does; C28_ForRowsStops tells it from makeValueIdsForRows.
RECURSIVE makeValueIdsForRowsAnalyses(_, _, _, _)
makeValueIdsForRowsAnalyses(h, groups, i, result) ==
    IF i > Len(groups.vals) THEN [h |-> h, result |-> result, success |-> TRUE]
    ELSE IF groups.nulls[i]
    THEN makeValueIdsForRowsAnalyses(h, groups, i + 1, emitNull(h, result, i))
    ELSE LET id == valueId(h, groups.vals[i])
         IN IF id = kUnmappable
            THEN [h |-> analyzeValue(h, groups.vals[i]), result |-> result,
                  success |-> FALSE]
            ELSE makeValueIdsForRowsAnalyses(h, groups, i + 1, emit(h, result, i, id))

RECURSIVE makeValueIdsForRows(_, _, _, _)
makeValueIdsForRows(h, groups, i, result) ==
    IF i > Len(groups.vals) THEN [h |-> h, result |-> result, success |-> TRUE]
    ELSE IF groups.nulls[i]
    THEN makeValueIdsForRows(h, groups, i + 1, emitNull(h, result, i))
    ELSE LET id == valueId(h, groups.vals[i])
         IN IF id = kUnmappable
            THEN [h |-> h, result |-> result, success |-> FALSE]
            ELSE makeValueIdsForRows(h, groups, i + 1, emit(h, result, i, id))

(***************************************************************************)
(* lookupValueIdsTyped: the read-only variant.  The loop state is          *)
(* [rows, result, hashes]; 'hashes' is the caller's scratch buffer.        *)
(***************************************************************************)
lookupValueIdsConstant(h, d, rows, hashes, result) ==
    LET id == lookupValueId(h, valueAt(d, begin(rows)))
        Zero(st, row) == [st EXCEPT !.result[row] = 0]
        Step(st, row) == [st EXCEPT !.result = emit(h, @, row, id)]
        st0 == [rows |-> rows, result |-> result, hashes |-> hashes]
    IN IF isNullAt(d, begin(rows))
       THEN IF h.multiplier_ = 1 THEN applyToSelected(Zero, st0, rows, 1) ELSE st0
       ELSE IF id = kUnmappable THEN [st0 EXCEPT !.rows = {}]
       ELSE applyToSelected(Step, st0, rows, 1)

\* A faulty lookupValueIdsFlat that leaves an unmappable row selected;
\* C10_LookupSelection tells it from lookupValueIdsFlat.
lookupValueIdsFlatKeepsRows(h, d, rows, hashes, result) ==
    LET Step(st, row) ==
            LET id == lookupValueId(h, valueAt(d, row))
            IN IF isNullAt(d, row) THEN [st EXCEPT !.result = emitNull(h, @, row)]
               ELSE IF id = kUnmappable THEN st
               ELSE [st EXCEPT !.result = emit(h, @, row, id)]
    IN applyToSelected(Step, [rows |-> rows, result |-> result, hashes |-> hashes],
                       rows, 1)

lookupValueIdsFlat(h, d, rows, hashes, result) ==
    LET Step(st, row) ==
            LET id == lookupValueId(h, valueAt(d, row))
            IN IF isNullAt(d, row) THEN [st EXCEPT !.result = emitNull(h, @, row)]
               ELSE IF id = kUnmappable THEN [st EXCEPT !.rows = @ \ {row}]
               ELSE [st EXCEPT !.result = emit(h, @, row, id)]
    IN applyToSelected(Step, [rows |-> rows, result |-> result, hashes |-> hashes],
                       rows, 1)

lookupValueIdsDecoded(h, d, rows, hashes, result) ==
    LET Step(st, row) ==
            LET baseIndex == index(d, row)
                cached == st.hashes[baseIndex]
                id == lookupValueId(h, valueAt(d, row))
            IN IF isNullAt(d, row) THEN [st EXCEPT !.result = emitNull(h, @, row)]
               ELSE IF cached # 0 THEN [st EXCEPT !.result = emit(h, @, row, cached)]
               ELSE IF id = kUnmappable THEN [st EXCEPT !.rows = @ \ {row}]
               ELSE [st EXCEPT !.hashes[baseIndex] = id,
                               !.result = emit(h, @, row, id)]
    IN applyToSelected(Step,
                       [rows |-> rows, result |-> result,
                        hashes |-> [i \in 1..Len(d.base) |-> 0]],
                       rows, 1)

lookupValueIdsTyped(h, d, rows, hashes, result) ==
    IF isConstantMapping(d) THEN lookupValueIdsConstant(h, d, rows, hashes, result)
    ELSE IF isIdentityMapping(d) THEN lookupValueIdsFlat(h, d, rows, hashes, result)
    ELSE lookupValueIdsDecoded(h, d, rows, hashes, result)

(***************************************************************************)
(* analyze: analyzeValue on every non-null row of the row container.       *)
(***************************************************************************)
RECURSIVE analyzeTyped(_, _, _)
analyzeTyped(h, groups, i) ==
    IF i > MaxRows THEN h
    ELSE analyzeTyped(IF groups.nulls[i] THEN h ELSE analyzeValue(h, groups.vals[i]),
                      groups, i + 1)

(***************************************************************************)
(* cardinality.                                                            *)
(***************************************************************************)
kMaxRange == 6

subOverflow(a, b) == a - b > kMax \/ a - b < kMin
mulOverflow(a, b) == a * b >= Two64

\* A faulty cardinalityRange that admits a width of kMaxRange itself;
\* C19_AsRange tells it from cardinalityRange.
cardinalityRangeAdmitsLimit(h) ==
    IF ~h.hasRange_ \/ h.rangeOverflow_ THEN [h |-> h, asRange |-> kRangeTooLarge]
    ELSE IF subOverflow(h.max_, h.min_)
    THEN [h |-> [h EXCEPT !.rangeOverflow_ = TRUE], asRange |-> kRangeTooLarge]
    ELSE IF h.max_ - h.min_ <= kMaxRange
    THEN [h |-> h, asRange |-> h.max_ - h.min_ + 2]
    ELSE [h |-> [h EXCEPT !.rangeOverflow_ = TRUE], asRange |-> kRangeTooLarge]

cardinalityRange(h) ==
    IF ~h.hasRange_ \/ h.rangeOverflow_ THEN [h |-> h, asRange |-> kRangeTooLarge]
    ELSE IF subOverflow(h.max_, h.min_)
    THEN [h |-> [h EXCEPT !.rangeOverflow_ = TRUE], asRange |-> kRangeTooLarge]
    ELSE IF h.max_ - h.min_ < kMaxRange
    THEN [h |-> h, asRange |-> h.max_ - h.min_ + 2]
    ELSE [h |-> [h EXCEPT !.rangeOverflow_ = TRUE], asRange |-> kRangeTooLarge]

\* A faulty cardinality that gives up on the distinct count as soon as the
\* range is too large; C20_AsDistincts tells it from cardinality.
cardinalityCouplesOutputs(h) ==
    IF h.typeKind_ = "BOOLEAN"
    THEN [h |-> [h EXCEPT !.hasRange_ = TRUE], asRange |-> 3, asDistincts |-> 3]
    ELSE LET r == cardinalityRange(h)
         IN [h |-> r.h, asRange |-> r.asRange,
             asDistincts |-> IF h.distinctOverflow_ \/ r.asRange = kRangeTooLarge
                             THEN kRangeTooLarge
                             ELSE Len(h.uniqueValues_) + 1]

cardinality(h) ==
    IF h.typeKind_ = "BOOLEAN"
    THEN [h |-> [h EXCEPT !.hasRange_ = TRUE], asRange |-> 3, asDistincts |-> 3]
    ELSE LET r == cardinalityRange(h)
         IN [h |-> r.h, asRange |-> r.asRange,
             asDistincts |-> IF h.distinctOverflow_ THEN kRangeTooLarge
                             ELSE Len(h.uniqueValues_) + 1]

(***************************************************************************)
(* enableValueIds / enableValueRange.  'err' is the failed VELOX_CHECK.    *)
(* (max_ - min_) + 2 is computed in int64_t and stored in the uint64_t     *)
(* rangeSize_: the sum modulo Two64.                                       *)
(***************************************************************************)
product(h) ==
    IF mulOverflow(h.multiplier_, h.rangeSize_) THEN kRangeTooLarge
    ELSE h.multiplier_ * h.rangeSize_

\* A faulty enableValueIds that leaves the reserve out of rangeSize_;
\* C23_EnableValueIds tells it from enableValueIds.
enableValueIdsNoReserve(h, multiplier, reserve) ==
    LET h1 == [h EXCEPT !.multiplier_ = multiplier,
                        !.rangeSize_ = ToU64(Len(h.uniqueValues_) + 1),
                        !.isRange_ = FALSE]
    IN [h |-> h1, value |-> product(h1), err |-> FALSE]

enableValueIds(h, multiplier, reserve) ==
    LET h1 == [h EXCEPT !.multiplier_ = multiplier,
                        !.rangeSize_ = ToU64(Len(h.uniqueValues_) + 1 + reserve),
                        !.isRange_ = FALSE]
    IN [h |-> h1, value |-> product(h1), err |-> FALSE]

\* A faulty enableValueRange that sets isRange_ before it checks hasRange_;
\* C26_RequiresRange tells it from enableValueRange.
enableValueRangeChecksLate(h, multiplier, reserve) ==
    LET half == reserve \div 2
        h1 == [h EXCEPT !.multiplier_ = multiplier, !.isRange_ = TRUE]
        h2 == [h1 EXCEPT !.min_ = IF kMin + half + 1 > @ THEN kMin ELSE @ - half,
                         !.max_ = IF kMax - half < @ THEN kMax ELSE @ + half]
        h3 == [h2 EXCEPT !.rangeSize_ = ToU64((h2.max_ - h2.min_) + 2)]
    IN IF ~h.hasRange_ THEN [h |-> h1, value |-> 0, err |-> TRUE]
       ELSE [h |-> h3, value |-> product(h3), err |-> FALSE]

\* rangeSize_ = (max_ - min_) + 2 is a signed subtraction stored into a
\* uint64_t.  When max_ - min_ exceeds kMax the subtraction overflows; the
\* model takes the two's-complement result, which is what the store into
\* the unsigned rangeSize_ then holds: (max_ - min_ + 2) modulo Two64.
enableValueRange(h, multiplier, reserve) ==
    LET half == reserve \div 2
        h1 == [h EXCEPT !.multiplier_ = multiplier]
        h2 == [h1 EXCEPT !.min_ = IF kMin + half + 1 > @ THEN kMin ELSE @ - half,
                         !.max_ = IF kMax - half < @ THEN kMax ELSE @ + half,
                         !.isRange_ = TRUE]
        h3 == [h2 EXCEPT !.rangeSize_ = ToU64((h2.max_ - h2.min_) + 2)]
    IN IF ~h.hasRange_ THEN [h |-> h1, value |-> 0, err |-> TRUE]
       ELSE [h |-> h3, value |-> product(h3), err |-> FALSE]

(***************************************************************************)
(* getFilter(nullAllowed).  The filter made by createBigintValues is the   *)
(* list of values it was given and the flag; nullptr is NoFilter.          *)
(***************************************************************************)
IntegerKinds == {"TINYINT", "SMALLINT", "INTEGER", "BIGINT"}

NoFilter == [present |-> FALSE, values |-> <<>>, nullAllowed |-> FALSE]

createBigintValues(values, nullAllowed) ==
    [present |-> TRUE, values |-> values, nullAllowed |-> nullAllowed]

\* A faulty getFilter that lists the table of an overflowed Hasher;
\* C24_GetFilter tells it from getFilter.
getFilterIgnoresOverflow(h, nullAllowed) ==
    IF h.typeKind_ \in IntegerKinds
    THEN createBigintValues([i \in 1..Len(h.uniqueValues_) |-> h.uniqueValues_[i].data],
                            nullAllowed)
    ELSE NoFilter

getFilter(h, nullAllowed) ==
    IF h.typeKind_ \in IntegerKinds /\ ~h.distinctOverflow_
    THEN createBigintValues([i \in 1..Len(h.uniqueValues_) |-> h.uniqueValues_[i].data],
                            nullAllowed)
    ELSE NoFilter

(***************************************************************************)
(* merge(other).                                                           *)
(***************************************************************************)
\* A faulty mergeRange that treats a peer without a range as having nothing
\* to say and leaves the receiver's range alone; C14_MergeRange tells it
\* from mergeRange.
mergeRangeIgnoresEmptyPeer(h, other) ==
    IF ~other.hasRange_ /\ ~other.rangeOverflow_ THEN h
    ELSE IF h.hasRange_ /\ other.hasRange_ /\ ~h.rangeOverflow_ /\ ~other.rangeOverflow_
    THEN [h EXCEPT !.min_ = IF other.min_ < @ THEN other.min_ ELSE @,
                   !.max_ = IF other.max_ > @ THEN other.max_ ELSE @]
    ELSE [h EXCEPT !.hasRange_ = FALSE, !.rangeOverflow_ = TRUE]

\* A faulty mergeRange that also leaves range mode when it invalidates the
\* range; C32_EncodingFrame tells it from mergeRange.
mergeRangeLeavesRangeMode(h, other) ==
    IF h.hasRange_ /\ other.hasRange_ /\ ~h.rangeOverflow_ /\ ~other.rangeOverflow_
    THEN [h EXCEPT !.min_ = IF other.min_ < @ THEN other.min_ ELSE @,
                   !.max_ = IF other.max_ > @ THEN other.max_ ELSE @]
    ELSE [h EXCEPT !.hasRange_ = FALSE, !.rangeOverflow_ = TRUE, !.isRange_ = FALSE]

mergeRange(h, other) ==
    IF h.hasRange_ /\ other.hasRange_ /\ ~h.rangeOverflow_ /\ ~other.rangeOverflow_
    THEN [h EXCEPT !.min_ = IF other.min_ < @ THEN other.min_ ELSE @,
                   !.max_ = IF other.max_ > @ THEN other.max_ ELSE @]
    ELSE [h EXCEPT !.hasRange_ = FALSE, !.rangeOverflow_ = TRUE]

\* The copy of a peer's entry keeps pointing at the peer's bytes.
foreign(value, id) ==
    [data |-> value.data, id |-> id,
     ptr |-> IF value.ptr = "local" THEN "peer" ELSE value.ptr]

\* A faulty mergeDistinct that appends every foreign entry, present or not;
\* C16_MergeIdempotent tells it from mergeDistinct.
RECURSIVE mergeDistinctAppendsAll(_, _, _)
mergeDistinctAppendsAll(uniqueValues, others, i) ==
    IF i > Len(others) THEN uniqueValues
    ELSE mergeDistinctAppendsAll(
             Append(uniqueValues, foreign(others[i], Len(uniqueValues) + 1)),
             others, i + 1)

\* A faulty mergeDistinct that inserts a foreign entry under the id it had
\* in the peer; C17_Ids tells it from mergeDistinct.
RECURSIVE mergeDistinctKeepsForeignId(_, _, _)
mergeDistinctKeepsForeignId(uniqueValues, others, i) ==
    IF i > Len(others) THEN uniqueValues
    ELSE mergeDistinctKeepsForeignId(
             IF Contains(uniqueValues, others[i].data) THEN uniqueValues
             ELSE Append(uniqueValues, foreign(others[i], others[i].id)),
             others, i + 1)

RECURSIVE mergeDistinct(_, _, _)
mergeDistinct(uniqueValues, others, i) ==
    IF i > Len(others) THEN uniqueValues
    ELSE mergeDistinct(
             IF Contains(uniqueValues, others[i].data) THEN uniqueValues
             ELSE Append(uniqueValues, foreign(others[i], Len(uniqueValues) + 1)),
             others, i + 1)

\* A faulty merge that takes the values of a peer whose table overflowed;
\* C15_MergeCommutesWhereValid tells it from merge.
mergeTakesOverflowedPeer(h, other) ==
    IF h.typeKind_ = "BOOLEAN" THEN h
    ELSE LET h1 == mergeRange(h, other)
         IN IF ~h1.distinctOverflow_
            THEN [h1 EXCEPT !.uniqueValues_ = mergeDistinct(@, other.uniqueValues_, 1)]
            ELSE [h1 EXCEPT !.distinctOverflow_ = TRUE]

merge(h, other) ==
    IF h.typeKind_ = "BOOLEAN" THEN h
    ELSE LET h1 == mergeRange(h, other)
         IN IF ~h1.distinctOverflow_ /\ ~other.distinctOverflow_
            THEN [h1 EXCEPT !.uniqueValues_ = mergeDistinct(@, other.uniqueValues_, 1)]
            ELSE [h1 EXCEPT !.distinctOverflow_ = TRUE]

(***************************************************************************)
(* The Hasher after construction, and the peers handed to merge: Hashers   *)
(* of the same column that have analysed a few values.                     *)
(***************************************************************************)
InitMultipliers == {0, 1}

NewHasher(kind, multiplier) ==
    [typeKind_ |-> kind, hasRange_ |-> FALSE, rangeOverflow_ |-> FALSE,
     distinctOverflow_ |-> FALSE, min_ |-> 1, max_ |-> 0,
     uniqueValues_ |-> <<>>, distinctStringsBytes_ |-> 0,
     uniqueValuesStorage_ |-> <<>>, isRange_ |-> FALSE,
     multiplier_ |-> multiplier, rangeSize_ |-> 0, cachedHashes_ |-> <<>>]

MaxPeerValues == 2

RECURSIVE analyzeAll(_, _)
analyzeAll(h, values) ==
    IF values = <<>> THEN h
    ELSE analyzeAll(analyzeValue(h, Head(values)), Tail(values))

Increasing(kind, seq) ==
    \A i \in 1..(Len(seq) - 1) :
        IndexIn(BaseOf(kind), seq[i]) < IndexIn(BaseOf(kind), seq[i + 1])

PeerValues(kind) ==
    UNION {[1..n -> ValsOf(kind)] : n \in 0..MaxPeerValues}
        \cup {seq \in [1..(MaxPeerValues + 1) -> ValsOf(kind)] : Increasing(kind, seq)}

Peers(kind) == {analyzeAll(NewHasher(kind, 1), seq) : seq \in PeerValues(kind)}

(***************************************************************************)
(* The state: the Hasher, the caller's scratch buffer of lookupValueIds,   *)
(* and the call in flight: its arguments as passed and as left, what it    *)
(* returned, and 'before', the Hasher as the call found it.                *)
(*                                                                         *)
(* Every path that reads cachedHashes_ or the caller's scratch buffer      *)
(* first resizes and fills it (lines 93-94, 246-247 and 417-418), so the   *)
(* content a call leaves there is dead once the call has returned: Return  *)
(* forgets it.                                                             *)
(***************************************************************************)
VARIABLES hasher, hashes, call

vars == <<hasher, hashes, call>>

InitialResult == [r \in Rows |-> 2]

Idle ==
    [op |-> "idle", decoded |-> <<>>, rows0 |-> {}, rows |-> {},
     result0 |-> <<>>, result |-> <<>>, ret |-> FALSE, value |-> 0,
     asRange |-> 0, asDistincts |-> 0, err |-> FALSE, multiplier |-> 0,
     reserve |-> 0, other |-> <<>>, before |-> <<>>, mix |-> FALSE,
     nullAllowed |-> FALSE, filter |-> <<>>]

Init ==
    /\ hasher \in {NewHasher(kind, m) : kind \in TypeKinds, m \in InitMultipliers}
    /\ hashes = <<>>
    /\ call = Idle

ComputeValueIds ==
    /\ call.op = "idle"
    /\ \E d \in Batches(hasher.typeKind_), sel \in SUBSET Rows :
          LET r == makeValueIds(hasher, d, sel, InitialResult)
          IN /\ hasher' = r.h
             /\ call' = [Idle EXCEPT !.before = hasher, !.op = "computeValueIds", !.decoded = d,
                                     !.rows0 = sel, !.rows = sel,
                                     !.result0 = InitialResult,
                                     !.result = r.result, !.ret = r.success]
    /\ UNCHANGED hashes

\* A faulty LookupValueIds that analyses the values it cannot map, as
\* computeValueIds does; C9_LookupReadOnly tells it from LookupValueIds.
LookupValueIdsAnalyses ==
    /\ call.op = "idle"
    /\ \E d \in Batches(hasher.typeKind_), sel \in SUBSET Rows :
          LET r == lookupValueIdsTyped(hasher, d, sel, hashes, InitialResult)
          IN /\ hashes' = r.hashes
             /\ hasher' = [makeValueIds(hasher, d, sel, InitialResult).h
                               EXCEPT !.cachedHashes_ = hasher.cachedHashes_]
             /\ call' = [Idle EXCEPT !.before = hasher, !.op = "lookupValueIds", !.decoded = d,
                                     !.rows0 = sel, !.rows = r.rows,
                                     !.result0 = InitialResult,
                                     !.result = r.result]

LookupValueIds ==
    /\ call.op = "idle"
    /\ \E d \in Batches(hasher.typeKind_), sel \in SUBSET Rows :
          LET r == lookupValueIdsTyped(hasher, d, sel, hashes, InitialResult)
          IN /\ hashes' = r.hashes
             /\ call' = [Idle EXCEPT !.before = hasher, !.op = "lookupValueIds", !.decoded = d,
                                     !.rows0 = sel, !.rows = r.rows,
                                     !.result0 = InitialResult,
                                     !.result = r.result]
    /\ UNCHANGED hasher

Analyze ==
    /\ call.op = "idle"
    /\ \E groups \in Logical(hasher.typeKind_) :
          /\ hasher' = analyzeTyped(hasher, groups, 1)
          /\ call' = [Idle EXCEPT !.before = hasher, !.op = "analyze", !.decoded = FlatView(groups)]
    /\ UNCHANGED hashes

CardinalityCall ==
    /\ call.op = "idle"
    /\ LET r == cardinality(hasher)
       IN /\ hasher' = r.h
          /\ call' = [Idle EXCEPT !.before = hasher, !.op = "cardinality", !.asRange = r.asRange,
                                  !.asDistincts = r.asDistincts]
    /\ UNCHANGED hashes

EnableValueIds ==
    /\ call.op = "idle"
    /\ \E multiplier \in Multipliers, reserve \in Reserves :
          LET r == enableValueIds(hasher, multiplier, reserve)
          IN /\ hasher' = r.h
             /\ call' = [Idle EXCEPT !.before = hasher, !.op = "enableValueIds", !.value = r.value,
                                     !.multiplier = multiplier,
                                     !.reserve = reserve]
    /\ UNCHANGED hashes

EnableValueRange ==
    /\ call.op = "idle"
    /\ \E multiplier \in Multipliers, reserve \in Reserves :
          LET r == enableValueRange(hasher, multiplier, reserve)
          IN /\ hasher' = r.h
             /\ call' = [Idle EXCEPT !.before = hasher, !.op = "enableValueRange", !.value = r.value,
                                     !.err = r.err, !.multiplier = multiplier,
                                     !.reserve = reserve]
    /\ UNCHANGED hashes

Merge ==
    /\ call.op = "idle"
    /\ \E other \in Peers(hasher.typeKind_) :
          /\ hasher' = merge(hasher, other)
          /\ call' = [Idle EXCEPT !.before = hasher, !.op = "merge", !.other = other]
    /\ UNCHANGED hashes

\* The call returns: the caller is done with the batch and its buffers.
Return ==
    /\ call.op # "idle"
    /\ call' = Idle
    /\ hasher' = [hasher EXCEPT !.cachedHashes_ = <<>>]
    /\ hashes' = <<>>

Next ==
    \/ ComputeValueIds
    \/ LookupValueIds
    \/ Analyze
    \/ CardinalityCall
    \/ EnableValueIds
    \/ EnableValueRange
    \/ Merge
    \/ Return

Spec == Init /\ [][Next]_vars

(***************************************************************************)
(* hash on its own.  hash reads nothing of the analysis state or of the    *)
(* encoding and leaves only cachedHashes_ behind, so it is explored from   *)
(* the constructed Hasher, over both values of mix and two contents of the *)
(* accumulated hashes.                                                     *)
(***************************************************************************)
HashResults == {InitialResult, [r \in Rows |-> r]}

Hash ==
    /\ call.op = "idle"
    /\ \E d \in Batches(hasher.typeKind_), sel \in SUBSET Rows,
          mix \in BOOLEAN, result0 \in HashResults :
          LET r == hashValues(hasher, d, sel, mix, result0)
          IN /\ hasher' = r.h
             /\ call' = [Idle EXCEPT !.before = hasher, !.op = "hash", !.decoded = d,
                                     !.rows0 = sel, !.rows = sel, !.mix = mix,
                                     !.result0 = result0, !.result = r.result]
    /\ UNCHANGED hashes

NextHash ==
    \/ Hash
    \/ Return

SpecHash == Init /\ [][NextHash]_vars

(***************************************************************************)
(* computeValueIds on batches of MaxWideRows rows, flat and dictionary.    *)
(* The Hasher starts as an analysis of up to MaxPeerValues values followed *)
(* by enableValueIds or enableValueRange leaves it, and then changes only  *)
(* through the calls that fail.                                            *)
(***************************************************************************)
MaxWideRows == 3

WideRows == 1..MaxWideRows

WideLogical(kind) ==
    {l \in [vals : [WideRows -> ValsOf(kind)], nulls : [WideRows -> BOOLEAN]] :
        \A r \in WideRows : l.nulls[r] => l.vals[r] = Default(kind)}

WideBatches(kind) ==
    {FlatView(l) : l \in WideLogical(kind)}
        \cup {DictView(l, kind) : l \in WideLogical(kind)}

WideResult == [r \in WideRows |-> 2]

Activated(kind) ==
    {enableValueIds(h, 1, 0).h : h \in Peers(kind)}
        \cup {enableValueRange(h, 1, 0).h : h \in {x \in Peers(kind) : x.hasRange_}}

InitWide ==
    /\ hasher \in UNION {Activated(kind) : kind \in TypeKinds}
    /\ hashes = <<>>
    /\ call = Idle

ComputeValueIdsWide ==
    /\ call.op = "idle"
    /\ \E d \in WideBatches(hasher.typeKind_), sel \in SUBSET WideRows :
          LET r == makeValueIds(hasher, d, sel, WideResult)
          IN /\ hasher' = r.h
             /\ call' = [Idle EXCEPT !.before = hasher, !.op = "computeValueIds",
                                     !.decoded = d, !.rows0 = sel, !.rows = sel,
                                     !.result0 = WideResult,
                                     !.result = r.result, !.ret = r.success]
    /\ UNCHANGED hashes

NextWide ==
    \/ ComputeValueIdsWide
    \/ Return

SpecWide == InitWide /\ [][NextWide]_vars


(***************************************************************************)
(* The analysis-domain specification: Hashers of every kind, BOOLEAN       *)
(* included, that are analysed, merged with peers, asked for their         *)
(* cardinality and handed batches while no encoding is active.  A peer is  *)
(* a Hasher that analysed some values and may have answered cardinality(), *)
(* which is where an integer range is found too wide.                      *)
(***************************************************************************)
DomainPeers(kind) == Peers(kind) \cup {cardinality(p).h : p \in Peers(kind)}

InitDomain ==
    /\ hasher \in {NewHasher(kind, 1) : kind \in AllTypeKinds}
    /\ hashes = <<>>
    /\ call = Idle

MergeDomain ==
    /\ call.op = "idle"
    /\ \E other \in DomainPeers(hasher.typeKind_) :
          /\ hasher' = merge(hasher, other)
          /\ call' = [Idle EXCEPT !.before = hasher, !.op = "merge", !.other = other]
    /\ UNCHANGED hashes

NextDomain ==
    \/ Analyze
    \/ MergeDomain
    \/ CardinalityCall
    \/ ComputeValueIds
    \/ Return

SpecDomain == InitDomain /\ [][NextDomain]_vars

(***************************************************************************)
(* The cardinality specification: Hashers that analysed up to MaxAnalysed  *)
(* values and are then merged and asked for their cardinality.  The        *)
(* integers are chosen around the limits of cardinality(): max_ - min_ is  *)
(* below kMaxRange (0 and 5), at it (0 and 6), above it within the word    *)
(* (-1 and 6) and beyond the word (-1 and kMax, kMin and anything else).   *)
(***************************************************************************)
MaxAnalysed == 3

CardinalityVals(kind) ==
    IF kind = "BIGINT" THEN {kMin, -1, 0, 5, 6, kMax} ELSE ValsOf(kind)

AnalysedHashers(kind) ==
    {analyzeAll(NewHasher(kind, 1), seq) :
        seq \in UNION {[1..n -> CardinalityVals(kind)] : n \in 0..MaxAnalysed}}

InitCardinality ==
    /\ \E kind \in AllTypeKinds : hasher \in AnalysedHashers(kind)
    /\ hashes = <<>>
    /\ call = Idle

NextCardinality ==
    \/ CardinalityCall
    \/ MergeDomain
    \/ Return

SpecCardinality == InitCardinality /\ [][NextCardinality]_vars

(***************************************************************************)
(* The encoding specification: a Hasher that analysed its values and was   *)
(* activated, in either mode and with either multiplier, maps batches and  *)
(* row containers while it is analysed and merged further, with no new     *)
(* activation.                                                             *)
(***************************************************************************)
InitCompute ==
    /\ \E kind \in TypeKinds, multiplier \in Multipliers :
          \E h \in Peers(kind) :
              \/ hasher = enableValueIds(h, multiplier, 0).h
              \/ h.hasRange_ /\ hasher = enableValueRange(h, multiplier, 0).h
    /\ hashes = <<>>
    /\ call = Idle

ComputeValueIdsForRows ==
    /\ call.op = "idle"
    /\ hasher.typeKind_ = "VARCHAR"
    /\ \E groups \in Logical(hasher.typeKind_) :
          LET r == makeValueIdsForRows(hasher, groups, 1, InitialResult)
          IN /\ hasher' = r.h
             /\ call' = [Idle EXCEPT !.before = hasher,
                                     !.op = "computeValueIdsForRows",
                                     !.decoded = FlatView(groups),
                                     !.rows0 = Rows, !.rows = Rows,
                                     !.result0 = InitialResult,
                                     !.result = r.result, !.ret = r.success]
    /\ UNCHANGED hashes

NextCompute ==
    \/ ComputeValueIds
    \/ ComputeValueIdsForRows
    \/ Analyze
    \/ Merge
    \/ Return

SpecCompute == InitCompute /\ [][NextCompute]_vars

(***************************************************************************)
(* The scratch specification: the buffers live as long as their owners.    *)
(* cachedHashes_ is a member of the Hasher and 'hashes' belongs to the     *)
(* caller's ScratchMemory, so what one call leaves in them is what the     *)
(* next call finds: ReturnKeepsScratch ends a call and keeps both.  Only   *)
(* dictionary batches use the buffers, so the batches are dictionaries.    *)
(***************************************************************************)
DictionaryBatches(kind) == {DictView(l, kind) : l \in Logical(kind)}

\* The whole batch, or its last row alone.
ScratchSelections == {Rows, {MaxRows}}

HashDictionary ==
    /\ call.op = "idle"
    /\ \E d \in DictionaryBatches(hasher.typeKind_), sel \in ScratchSelections,
          mix \in BOOLEAN :
          LET r == hashValues(hasher, d, sel, mix, InitialResult)
          IN /\ hasher' = r.h
             /\ call' = [Idle EXCEPT !.before = hasher, !.op = "hash", !.decoded = d,
                                     !.rows0 = sel, !.rows = sel, !.mix = mix,
                                     !.result0 = InitialResult,
                                     !.result = r.result]
    /\ UNCHANGED hashes

ComputeValueIdsDictionary ==
    /\ call.op = "idle"
    /\ \E d \in DictionaryBatches(hasher.typeKind_), sel \in ScratchSelections :
          LET r == makeValueIds(hasher, d, sel, InitialResult)
          IN /\ hasher' = r.h
             /\ call' = [Idle EXCEPT !.before = hasher, !.op = "computeValueIds",
                                     !.decoded = d, !.rows0 = sel, !.rows = sel,
                                     !.result0 = InitialResult,
                                     !.result = r.result, !.ret = r.success]
    /\ UNCHANGED hashes

LookupValueIdsDictionary ==
    /\ call.op = "idle"
    /\ \E d \in DictionaryBatches(hasher.typeKind_), sel \in ScratchSelections :
          LET r == lookupValueIdsTyped(hasher, d, sel, hashes, InitialResult)
          IN /\ hashes' = r.hashes
             /\ call' = [Idle EXCEPT !.before = hasher, !.op = "lookupValueIds",
                                     !.decoded = d, !.rows0 = sel, !.rows = r.rows,
                                     !.result0 = InitialResult,
                                     !.result = r.result]
    /\ UNCHANGED hasher

\* The Hasher analysed one or two values and was activated in distinct
\* mode, where ids are small numbers as unlike hashes as can be.
InitScratch ==
    /\ \E kind \in TypeKinds :
          \E h \in Peers(kind) :
              /\ h.uniqueValues_ # <<>> /\ ~h.distinctOverflow_
              /\ hasher = enableValueIds(h, 1, 0).h
    /\ hashes = <<>>
    /\ call = Idle

ReturnKeepsScratch ==
    /\ call.op # "idle"
    /\ call' = Idle
    /\ UNCHANGED <<hasher, hashes>>

NextScratch ==
    \/ HashDictionary
    \/ ComputeValueIdsDictionary
    \/ LookupValueIdsDictionary
    \/ ReturnKeepsScratch

SpecScratch == InitScratch /\ [][NextScratch]_vars

(***************************************************************************)
(* The filter specification: Hashers of every kind are analysed and merged *)
(* and asked for their filter.  getFilter is const: the Hasher is the same *)
(* object after the call.                                                  *)
(***************************************************************************)
GetFilter ==
    /\ call.op = "idle"
    /\ \E nullAllowed \in BOOLEAN :
          call' = [Idle EXCEPT !.before = hasher, !.op = "getFilter",
                               !.nullAllowed = nullAllowed,
                               !.filter = getFilter(hasher, nullAllowed)]
    /\ UNCHANGED <<hasher, hashes>>

NextFilter ==
    \/ Analyze
    \/ MergeDomain
    \/ GetFilter
    \/ Return

SpecFilter == InitDomain /\ [][NextFilter]_vars

(***************************************************************************)
(* The activation specification: Hashers that analysed up to MaxAnalysed   *)
(* values, and may have merged a peer, are activated with a reserve.  The  *)
(* reserves are 0, 1 (half of it is 0), 2 and 4 (the range grows by 1 and  *)
(* 2 on each side) and kMax (the largest int64_t).                         *)
(***************************************************************************)
WideReserves == {0, 1, 2, 4, kMax}

EnableValueIdsReserve ==
    /\ call.op = "idle"
    /\ \E multiplier \in Multipliers, reserve \in WideReserves :
          LET r == enableValueIds(hasher, multiplier, reserve)
          IN /\ hasher' = r.h
             /\ call' = [Idle EXCEPT !.before = hasher, !.op = "enableValueIds",
                                     !.value = r.value, !.multiplier = multiplier,
                                     !.reserve = reserve]
    /\ UNCHANGED hashes

EnableValueRangeReserve ==
    /\ call.op = "idle"
    /\ \E multiplier \in Multipliers, reserve \in WideReserves :
          LET r == enableValueRange(hasher, multiplier, reserve)
          IN /\ hasher' = r.h
             /\ call' = [Idle EXCEPT !.before = hasher, !.op = "enableValueRange",
                                     !.value = r.value, !.err = r.err,
                                     !.multiplier = multiplier, !.reserve = reserve]
    /\ UNCHANGED hashes

\* The Hasher to activate analysed its values and may have merged a peer.
InitEnable ==
    /\ \E kind \in AllTypeKinds :
          \E h \in AnalysedHashers(kind), other \in DomainPeers(kind) :
              hasher \in {h, merge(h, other)}
    /\ hashes = <<>>
    /\ call = Idle

NextEnable ==
    \/ EnableValueIdsReserve
    \/ EnableValueRangeReserve
    \/ Return

SpecEnable == InitEnable /\ [][NextEnable]_vars

(***************************************************************************)
(* The life of a Hasher: every operation, from construction on.  The      *)
(* batches of hash() and lookupValueIds are dictionaries, the encoding     *)
(* that makes them write to the scratch buffers.                           *)
(***************************************************************************)
InitLife ==
    /\ hasher \in {NewHasher(kind, 1) : kind \in TypeKinds}
    /\ hashes = <<>>
    /\ call = Idle

NextLife ==
    \/ HashDictionary
    \/ ComputeValueIds
    \/ ComputeValueIdsForRows
    \/ LookupValueIdsDictionary
    \/ Analyze
    \/ CardinalityCall
    \/ EnableValueIds
    \/ EnableValueRange
    \/ Merge
    \/ GetFilter
    \/ Return

SpecLife == InitLife /\ [][NextLife]_vars

(***************************************************************************)
(* Vocabulary of the properties.  A call in flight is described by 'call': *)
(* the batch, the selection and the output as passed (rows0, result0) and  *)
(* as left (rows, result), and the Hasher as the call found it (before).   *)
(***************************************************************************)
IsCompute == call.op = "computeValueIds"
IsLookup == call.op = "lookupValueIds"

\* The selected rows of the batch that hold a value.
SelectedNonNull == {r \in call.rows0 : ~isNullAt(call.decoded, r)}

ValueOf(r) == valueAt(call.decoded, r)

\* The id of the value of row r under the encoding the call found.
IdBefore(r) == valueId(call.before, ValueOf(r))

MappableBefore(r) == IdBefore(r) # kUnmappable

\* What the emission rule leaves in out[r] for a given id.
Emitted(r, id) ==
    IF call.before.multiplier_ = 1 THEN id
    ELSE ToU64(call.result0[r] + call.before.multiplier_ * id)

\* The rows of the call whose ids were written: every selected row of a
\* computeValueIds that returned true, the rows lookupValueIds left selected.
Written ==
    IF IsCompute /\ call.ret THEN call.rows0
    ELSE IF IsLookup THEN call.rows
    ELSE {}

WrittenNonNull == Written \cap SelectedNonNull

\* The value of row r lies in the range the call found: [min_, max_].
InRangeBefore(r) ==
    /\ hasNumber(call.before, ValueOf(r))
    /\ call.before.min_ <= toInt64(call.before, ValueOf(r))
    /\ toInt64(call.before, ValueOf(r)) <= call.before.max_

(***************************************************************************)
(* C1 as stated: computeValueIds returns true iff every selected non-null  *)
(* row holds a value that is mappable under the encoding the call found,   *)
(* whatever the encoding of the batch.                                     *)
(***************************************************************************)
C1_TrueIffAllSelectedMappable ==
    IsCompute => (call.ret <=> \A r \in SelectedNonNull : MappableBefore(r))

(***************************************************************************)
(* C1: computeValueIds returns true iff every selected non-null row holds  *)
(* a mappable value, except that on a constant batch the constant alone    *)
(* decides, selected or not: the call returns true iff the constant is     *)
(* null or mappable, also when the selection is empty.                     *)
(***************************************************************************)
C1_TrueIffMappable ==
    IsCompute =>
        (call.ret <=>
            IF isConstantMapping(call.decoded)
            THEN isNullAt(call.decoded, 1)
                     \/ valueId(call.before, valueAt(call.decoded, 1)) # kUnmappable
            ELSE \A r \in SelectedNonNull : MappableBefore(r))

\* A flat or dictionary batch with a mappable and an unmappable selected
\* value: the call returned false.
C1_Witness ==
    /\ IsCompute
    /\ ~isConstantMapping(call.decoded)
    /\ ~call.ret
    /\ \E r1, r2 \in SelectedNonNull : MappableBefore(r1) /\ ~MappableBefore(r2)

\* A constant batch, no row selected, the constant unmappable.
C1_EmptyConstant ==
    /\ IsCompute
    /\ isConstantMapping(call.decoded)
    /\ call.rows0 = {}
    /\ ~call.ret

(***************************************************************************)
(* C2: in range mode with range [min, max], a computeValueIds whose        *)
(* selected values all lie in [min, max] returns true and gives each value *)
(* v the id v - min + 1; a selected value outside [min, max] is unmappable *)
(* and makes the call return false.                                        *)
(***************************************************************************)
C2_RangeIds ==
    IsCompute /\ call.before.isRange_ /\ call.before.multiplier_ = 1 =>
        /\ (\A r \in SelectedNonNull : InRangeBefore(r)) =>
               /\ call.ret \/ (isConstantMapping(call.decoded) /\ call.rows0 = {})
               /\ call.ret =>
                      \A r \in SelectedNonNull :
                          call.result[r] =
                              toInt64(call.before, ValueOf(r)) - call.before.min_ + 1
        /\ (\E r \in SelectedNonNull : ~InRangeBefore(r)) => ~call.ret

\* C2 for the ranges narrower than the id space.
C2_NarrowRange ==
    call.before # <<>> /\ call.before.max_ - call.before.min_ + 2 < kUnmappable
        => C2_RangeIds

(***************************************************************************)
(* C3: no non-null value is given id 0: with multiplier 1, no id written   *)
(* for a row that holds a value is 0, by computeValueIds or lookupValueIds,*)
(* in range mode or in distinct mode.                                      *)
(***************************************************************************)
C3_NoZeroId ==
    (IsCompute \/ IsLookup) /\ call.before.multiplier_ = 1 =>
        \A r \in WrittenNonNull : call.result[r] # 0

(***************************************************************************)
(* C4: within one Hasher two different values never get the same id: two   *)
(* rows of a call that were given the same id hold the same value.         *)
(***************************************************************************)
C4_IdsUnique ==
    (IsCompute \/ IsLookup) /\ call.before.multiplier_ = 1 =>
        \A r1, r2 \in WrittenNonNull :
            call.result[r1] = call.result[r2] => ValueOf(r1) = ValueOf(r2)

\* C4 for the integer columns and for distinct mode.
C4_ExceptStringRange ==
    call.before # <<>> /\ ~(call.before.isRange_ /\ call.before.typeKind_ = "VARCHAR")
        => C4_IdsUnique

(***************************************************************************)
(* C5 for every call on an activated Hasher: each id computeValueIds       *)
(* emits is below the rangeSize_ of the Hasher, whatever was analysed or   *)
(* merged since the encoding was set.                                      *)
(***************************************************************************)
C5_IdBelowRangeSize ==
    IsCompute /\ call.ret /\ call.before.multiplier_ = 1
            /\ call.before.rangeSize_ >= 2 =>
        \A r \in SelectedNonNull : call.result[r] < call.before.rangeSize_

\* An enable_* call has just set the encoding and did not report
\* kRangeTooLarge (nor fail its check).
JustEnabled ==
    /\ call.op \in {"enableValueIds", "enableValueRange"}
    /\ ~call.err
    /\ call.value # kRangeTooLarge

(***************************************************************************)
(* C5 for the encoding as an enable_* call leaves it: when the call did    *)
(* not report kRangeTooLarge, every id the Hasher can emit is below its    *)
(* rangeSize_.                                                             *)
(***************************************************************************)
C5_FreshIdBelowRangeSize ==
    JustEnabled =>
        \A v \in ValsOf(hasher.typeKind_) :
            valueId(hasher, v) # kUnmappable => valueId(hasher, v) < hasher.rangeSize_

\* The hasher re-activated in the encoding the call found, with the same
\* multiplier and no reserve.
Reactivated ==
    IF call.before.isRange_
    THEN enableValueRange(hasher, call.before.multiplier_, 0)
    ELSE enableValueIds(hasher, call.before.multiplier_, 0)

Retry ==
    makeValueIds(Reactivated.h, call.decoded, call.rows0, call.result0)

NoOverflowFlag == ~hasher.rangeOverflow_ /\ ~hasher.distinctOverflow_

\* The first selected row whose value the call found unmappable.
FirstUnmappable ==
    CHOOSE r \in SelectedNonNull :
        /\ ~MappableBefore(r)
        /\ \A q \in SelectedNonNull : ~MappableBefore(q) => r <= q

\* The value is inside the domain analysed so far: in the range and in the
\* distinct table.
Analysed(h, v) ==
    /\ hasNumber(h, v)
    /\ h.hasRange_ /\ h.min_ <= toInt64(h, v) /\ toInt64(h, v) <= h.max_
    /\ Contains(h.uniqueValues_, v)

(***************************************************************************)
(* C6: a computeValueIds that meets an unmappable value keeps scanning and *)
(* analyses that value and every later selected non-null value; after a    *)
(* call that returned false and left no overflow flag set, re-activating   *)
(* the same encoding succeeds and a retry on the same batch returns true.  *)
(***************************************************************************)
C6_RetryAfterFalse ==
    IsCompute /\ ~call.ret /\ NoOverflowFlag =>
        /\ \A r \in SelectedNonNull :
               r >= FirstUnmappable => Analysed(hasher, ValueOf(r))
        /\ ~Reactivated.err
        /\ Retry.success

\* C6 for the ranges narrower than the id space.
C6_NarrowRange ==
    call.before # <<>> /\ hasher.max_ - hasher.min_ + 2 < kUnmappable
        => C6_RetryAfterFalse

(***************************************************************************)
(* C7: for a selected null row computeValueIds and lookupValueIds write    *)
(* out[row] = 0 when multiplier_ is 1 and leave out[row] as it was         *)
(* otherwise, whatever the encoding of the batch and also when the null    *)
(* row comes after an unmappable row.                                      *)
(***************************************************************************)
C7_NullRows ==
    IsCompute \/ IsLookup =>
        \A r \in call.rows0 :
            isNullAt(call.decoded, r) =>
                /\ call.result[r] =
                       IF call.before.multiplier_ = 1 THEN 0 ELSE call.result0[r]
                /\ r \in call.rows

\* A null row after an unmappable row, multiplier 1: the null row holds 0.
C7_Witness ==
    /\ IsCompute
    /\ call.before.multiplier_ = 1
    /\ ~call.ret
    /\ \E r1 \in SelectedNonNull, r2 \in call.rows0 :
           /\ r1 < r2
           /\ ~MappableBefore(r1)
           /\ isNullAt(call.decoded, r2)
           /\ call.result[r2] = 0

(***************************************************************************)
(* C8: a computeValueIds that returns true has written, for every selected *)
(* non-null row, out[row] = id when multiplier_ is 1 and out[row] = old    *)
(* out[row] + multiplier_ * id otherwise, id being the id of the row's     *)
(* value.                                                                  *)
(***************************************************************************)
C8_Emission ==
    IsCompute /\ call.ret =>
        \A r \in SelectedNonNull : call.result[r] = Emitted(r, IdBefore(r))

\* A call that returned true and packed an id into a partial key with a
\* multiplier other than 1.
C8_Witness ==
    /\ IsCompute
    /\ call.ret
    /\ call.before.multiplier_ > 1
    /\ \E r \in SelectedNonNull :
           /\ IdBefore(r) > 1
           /\ call.result[r] = call.result0[r] + call.before.multiplier_ * IdBefore(r)

(***************************************************************************)
(* C9: lookupValueIds is read-only: it leaves the Hasher, its analysis     *)
(* state and its encoding, exactly as it found it, also when values are    *)
(* unmappable.                                                             *)
(***************************************************************************)
C9_LookupReadOnly ==
    IsLookup => hasher = call.before

\* A lookup that met an unmappable value.
C9_Witness ==
    /\ IsLookup
    /\ hasher = call.before
    /\ \E r \in SelectedNonNull : ~MappableBefore(r)

(***************************************************************************)
(* C10: after lookupValueIds the selection is the input selection minus    *)
(* exactly the non-null rows whose value is unmappable (every row of a     *)
(* constant batch whose value is unmappable); null rows stay selected and  *)
(* every row still selected has its id written by the emission rule.       *)
(***************************************************************************)
C10_LookupSelection ==
    IsLookup =>
        /\ call.rows =
               {r \in call.rows0 : isNullAt(call.decoded, r) \/ MappableBefore(r)}
        /\ \A r \in call.rows \cap SelectedNonNull :
               call.result[r] = Emitted(r, IdBefore(r))
        /\ \A r \in Rows \ call.rows : call.result[r] = call.result0[r]

\* A lookup that dropped a row and kept a row whose value it mapped.
C10_Witness ==
    /\ IsLookup
    /\ \E r1, r2 \in call.rows0 :
           /\ r1 \notin call.rows
           /\ r2 \in call.rows
           /\ ~isNullAt(call.decoded, r2)
           /\ call.result[r2] = Emitted(r2, IdBefore(r2))

IsHash == call.op = "hash"

\* The logical sequence a decoded view shows.
LogicalOf(d) ==
    [vals |-> [r \in DOMAIN d.nulls |-> valueAt(d, r)], nulls |-> d.nulls]

\* The views of the logical sequence of the batch of the call.
ViewsOfCall ==
    LET l == LogicalOf(call.decoded)
        kind == call.before.typeKind_
    IN {FlatView(l), DictView(l, kind)}
           \cup (IF IsConstant(l) THEN {ConstView(l)} ELSE {})

(***************************************************************************)
(* C11: hash writes the same out[row] for every selected row whether the   *)
(* logical sequence is given as a flat, a constant or a dictionary batch,  *)
(* for the same selection, mix flag and accumulated hashes; a genuine hash *)
(* equal to kNullHash in the dictionary cache changes nothing.             *)
(***************************************************************************)
C11_HashEncodingInvariant ==
    IsHash =>
        \A v \in ViewsOfCall :
            \A r \in call.rows0 :
                hashValues(call.before, v, call.rows0, call.mix,
                           call.result0).result[r] = call.result[r]

\* A dictionary batch whose two selected rows hold the same value, the hash
\* of which is kNullHash, hashed with mixing.
C11_Witness ==
    /\ IsHash
    /\ call.decoded.enc = "dict"
    /\ call.mix
    /\ call.rows0 = Rows
    /\ \A r \in Rows :
           /\ ~isNullAt(call.decoded, r)
           /\ index(call.decoded, r) = index(call.decoded, 1)
           /\ hashOne(call.before.typeKind_, call.decoded, r) = kNullHash
           /\ call.result[r] = hashMix(call.result0[r], kNullHash)

(***************************************************************************)
(* C13: hash writes, for every selected row, H(value) (kNullHash for a     *)
(* null row) when mix is false and hashMix(old out[row], that hash) when   *)
(* mix is true; it does not write the entries of unselected rows.          *)
(***************************************************************************)
C13_HashWrites ==
    IsHash =>
        \A r \in Rows :
            LET hash == IF isNullAt(call.decoded, r) THEN kNullHash
                        ELSE H(call.before.typeKind_, ValueOf(r))
            IN call.result[r] =
                   IF r \notin call.rows0 THEN call.result0[r]
                   ELSE IF call.mix THEN hashMix(call.result0[r], hash)
                   ELSE hash

\* A call with mixing that folded the hash of a value into a selected row
\* and left an unselected row alone.
C13_Witness ==
    /\ IsHash
    /\ call.mix
    /\ \E r1 \in call.rows0, r2 \in Rows \ call.rows0 :
           /\ ~isNullAt(call.decoded, r1)
           /\ call.result[r1] = hashMix(call.result0[r1], H(call.before.typeKind_, ValueOf(r1)))
           /\ call.result[r1] # H(call.before.typeKind_, ValueOf(r1))
           /\ call.result[r2] = call.result0[r2]

\* The same computeValueIds on the other view, flat for dictionary and
\* dictionary for flat, of the logical sequence of the batch of the call.
OtherView ==
    IF call.decoded.enc = "flat"
    THEN DictView(LogicalOf(call.decoded), call.before.typeKind_)
    ELSE FlatView(LogicalOf(call.decoded))

OnOtherView ==
    makeValueIds(call.before, OtherView, call.rows0, call.result0)

OnFlat == IF call.decoded.enc = "flat" THEN call.result ELSE OnOtherView.result

OnDictionary == IF call.decoded.enc = "dict" THEN call.result ELSE OnOtherView.result

(***************************************************************************)
(* C12 as stated: from the same Hasher state computeValueIds on the flat   *)
(* view and on the dictionary view of a logical sequence returns the same  *)
(* boolean and writes the same out[row] for every selected row.            *)
(***************************************************************************)
C12_FlatAndDictionaryIdentical ==
    IsCompute /\ ~isConstantMapping(call.decoded) =>
        /\ OnOtherView.success = call.ret
        /\ \A r \in call.rows0 : OnOtherView.result[r] = call.result[r]

(***************************************************************************)
(* C12: the two views return the same boolean; when it is true they write  *)
(* the same out[row] for every selected row; when it is false they differ  *)
(* only in rows after the first unmappable one that repeat a value mapped  *)
(* before it: the dictionary path still writes the cached id there while   *)
(* the flat path leaves out[row] as it was.                                *)
(***************************************************************************)
C12_FlatAndDictionaryAgree ==
    IsCompute /\ ~isConstantMapping(call.decoded) =>
        /\ OnOtherView.success = call.ret
        /\ \A r \in call.rows0 :
               OnFlat[r] # OnDictionary[r] =>
                   /\ ~call.ret
                   /\ r \in SelectedNonNull
                   /\ r > FirstUnmappable
                   /\ \E q \in SelectedNonNull :
                          q < FirstUnmappable /\ ValueOf(q) = ValueOf(r)
                   /\ OnFlat[r] = call.result0[r]
                   /\ OnDictionary[r] = Emitted(r, IdBefore(r))

\* A batch x, y, x with y unmappable: both views return false and the
\* last row differs.
C12_Witness ==
    /\ IsCompute
    /\ ~isConstantMapping(call.decoded)
    /\ ~call.ret
    /\ ~OnOtherView.success
    /\ \E r \in call.rows0 : OnFlat[r] # OnDictionary[r]
    /\ \E r \in call.rows0 : r < FirstUnmappable /\ OnFlat[r] = OnDictionary[r]

(***************************************************************************)
(* merge.  'call.before' is the receiver and 'call.other' the peer as the  *)
(* call found them.  merge() of a BOOLEAN Hasher returns at once, so the   *)
(* properties of the range and of the table are those of the other kinds.  *)
(***************************************************************************)
IsMerge == call.op = "merge" /\ hasher.typeKind_ # "BOOLEAN"

RangeValid(h) == h.hasRange_ /\ ~h.rangeOverflow_

Least(a, b) == IF a < b THEN a ELSE b
Greatest(a, b) == IF a > b THEN a ELSE b

\* C14: after merge(other), when the receiver and the peer both had a range
\* and neither had range overflow, the receiver's range is [the smaller of
\* the two min_, the larger of the two max_] and is still valid; in every
\* other case, a peer that analysed no value included, the receiver has
\* rangeOverflow_ set.
C14_MergeRange ==
    IsMerge =>
        IF RangeValid(call.before) /\ RangeValid(call.other)
        THEN /\ hasher.min_ = Least(call.before.min_, call.other.min_)
             /\ hasher.max_ = Greatest(call.before.max_, call.other.max_)
             /\ RangeValid(hasher)
        ELSE hasher.rangeOverflow_

\* A receiver with a valid range met a peer that analysed no value and is
\* now range-overflowed.
C14_Witness ==
    /\ IsMerge
    /\ RangeValid(call.before)
    /\ ~call.other.hasRange_ /\ ~call.other.rangeOverflow_
    /\ call.other.uniqueValues_ = <<>>
    /\ hasher.rangeOverflow_

\* Two valid ranges that overlap in one value were merged into a range
\* wider than either.
C14_Envelope ==
    /\ IsMerge
    /\ RangeValid(call.before) /\ RangeValid(call.other)
    /\ call.other.min_ < call.before.min_
    /\ call.other.max_ = call.before.min_
    /\ call.other.max_ < call.before.max_
    /\ hasher.min_ = call.other.min_ /\ hasher.max_ = call.before.max_


\* The logical values held by the distinct table.
Values(h) == {h.uniqueValues_[i].data : i \in 1..Len(h.uniqueValues_)}

\* The peer after merging the receiver, the other way round.
Swapped == merge(call.other, call.before)

SameStatus(a, b) ==
    /\ a.hasRange_ = b.hasRange_
    /\ a.rangeOverflow_ = b.rangeOverflow_
    /\ a.distinctOverflow_ = b.distinctOverflow_

\* C15 as stated: A after merge(B) and B after merge(A) have the same
\* [min_, max_], the same rangeOverflow_ and distinctOverflow_ and the same
\* set of distinct values, for any two Hashers.
C15_MergeCommutes ==
    IsMerge =>
        /\ hasher.min_ = Swapped.min_ /\ hasher.max_ = Swapped.max_
        /\ SameStatus(hasher, Swapped)
        /\ Values(hasher) = Values(Swapped)

\* C15: A after merge(B) and B after merge(A) have the same hasRange_,
\* rangeOverflow_ and distinctOverflow_; the same [min_, max_] when the
\* merged range is valid; and the same set of distinct values when the
\* merged table has not overflowed.
C15_MergeCommutesWhereValid ==
    IsMerge =>
        /\ SameStatus(hasher, Swapped)
        /\ RangeValid(hasher) =>
               hasher.min_ = Swapped.min_ /\ hasher.max_ = Swapped.max_
        /\ ~hasher.distinctOverflow_ => Values(hasher) = Values(Swapped)

\* Two Hashers with different valid ranges and different values, neither
\* overflowed, were merged: range and table are both those of the union.
C15_Witness ==
    /\ IsMerge
    /\ RangeValid(hasher) /\ ~hasher.distinctOverflow_
    /\ call.before.min_ # call.other.min_
    /\ Values(call.before) \ Values(call.other) # {}
    /\ Values(call.other) \ Values(call.before) # {}
    /\ Values(hasher) = Values(call.before) \cup Values(call.other)
    /\ hasher.uniqueValues_ # Swapped.uniqueValues_


\* The receiver after merging the same peer once more.
MergedAgain == merge(hasher, call.other)

\* C16: merging the same peer a second time leaves min_, max_, hasRange_,
\* rangeOverflow_, distinctOverflow_ and the distinct table, ids included,
\* as the first merge left them.
C16_MergeIdempotent ==
    IsMerge =>
        /\ MergedAgain.min_ = hasher.min_ /\ MergedAgain.max_ = hasher.max_
        /\ SameStatus(MergedAgain, hasher)
        /\ MergedAgain.uniqueValues_ = hasher.uniqueValues_

\* The first merge widened the range and added a value to a table that
\* already held one.
C16_Witness ==
    /\ IsMerge
    /\ RangeValid(hasher) /\ ~hasher.distinctOverflow_
    /\ hasher.min_ # call.before.min_
    /\ call.before.uniqueValues_ # <<>>
    /\ Len(hasher.uniqueValues_) > Len(call.before.uniqueValues_)


(***************************************************************************)
(* The distinct table.  uniqueValues_ lists the entries in the order they  *)
(* were inserted, so "in insertion order" is "by position".                *)
(***************************************************************************)
Analyses == call.op \in {"analyze", "computeValueIds", "merge"}

\* The entries the call added: those behind the ones the call found.
Added ==
    {hasher.uniqueValues_[i].data :
        i \in (Len(call.before.uniqueValues_) + 1)..Len(hasher.uniqueValues_)}

\* C17: the ids in the distinct table are 1..|uniqueValues_| in insertion
\* order and no value is held twice; a call that analyses or merges leaves
\* every entry it found in place under the same id; and merge appends
\* exactly the peer's values the receiver did not hold, so that they get
\* the next ids behind the receiver's.
C17_Ids ==
    /\ \A i \in 1..Len(hasher.uniqueValues_) : hasher.uniqueValues_[i].id = i
    /\ \A i, j \in 1..Len(hasher.uniqueValues_) :
           hasher.uniqueValues_[i].data = hasher.uniqueValues_[j].data => i = j
    /\ Analyses =>
           /\ Len(call.before.uniqueValues_) <= Len(hasher.uniqueValues_)
           /\ \A i \in 1..Len(call.before.uniqueValues_) :
                  /\ hasher.uniqueValues_[i].data = call.before.uniqueValues_[i].data
                  /\ hasher.uniqueValues_[i].id = call.before.uniqueValues_[i].id
    /\ IsMerge =>
           Added = IF call.before.distinctOverflow_ \/ call.other.distinctOverflow_
                   THEN {}
                   ELSE Values(call.other) \ Values(call.before)

\* A merge added a foreign value behind the receiver's own, and a value
\* both sides held kept the receiver's id, which is not the peer's.
C17_Witness ==
    /\ IsMerge
    /\ Added # {}
    /\ \E v \in Values(call.before) \cap Values(call.other) :
           /\ IdOf(hasher.uniqueValues_, v) = IdOf(call.before.uniqueValues_, v)
           /\ IdOf(hasher.uniqueValues_, v) # IdOf(call.other.uniqueValues_, v)
    /\ \E v \in Added :
           IdOf(hasher.uniqueValues_, v) # IdOf(call.other.uniqueValues_, v)


\* C18: in every state reached by analyze, computeValueIds and merge, a
\* table of more than kMaxDistinct values, or distinctStringsBytes_ above
\* kMaxDistinctStringsBytes, comes with distinctOverflow_ set.
C18_BudgetsHard ==
    (\/ Len(hasher.uniqueValues_) > kMaxDistinct
     \/ hasher.distinctStringsBytes_ > kMaxDistinctStringsBytes)
        => hasher.distinctOverflow_

\* The part of C18 on the number of values alone.
C18_CountBudget ==
    Len(hasher.uniqueValues_) > kMaxDistinct => hasher.distinctOverflow_

\* The part of C18 on the bytes of the strings alone.
C18_BytesBudget ==
    hasher.distinctStringsBytes_ > kMaxDistinctStringsBytes
        => hasher.distinctOverflow_


(***************************************************************************)
(* cardinality.  'call.before' is the Hasher as the call found it.         *)
(***************************************************************************)
IsCardinality == call.op = "cardinality"

IsBoolean == hasher.typeKind_ = "BOOLEAN"

\* max_ - min_ as an integer, and whether it fits the signed word.
Width(h) == h.max_ - h.min_

FitsInt64(n) == kMin <= n /\ n <= kMax

RangeReportable(h) ==
    /\ h.hasRange_ /\ ~h.rangeOverflow_
    /\ FitsInt64(Width(h))
    /\ Width(h) < kMaxRange

\* C19: for a kind other than BOOLEAN cardinality() reports asRange =
\* max_ - min_ + 2 when the Hasher has a range, rangeOverflow_ is clear,
\* max_ - min_ fits an int64_t and is below kMaxRange, and reports
\* kRangeTooLarge in every other case; for BOOLEAN it reports 3 for both
\* asRange and asDistincts.
C19_AsRange ==
    IsCardinality =>
        IF IsBoolean THEN call.asRange = 3 /\ call.asDistincts = 3
        ELSE IF RangeReportable(call.before)
        THEN /\ call.asRange = Width(call.before) + 2
             /\ call.asRange # kRangeTooLarge
        ELSE call.asRange = kRangeTooLarge

\* A range of the largest width that is still reported: kMaxRange - 1.
C19_Witness ==
    /\ IsCardinality /\ ~IsBoolean
    /\ RangeReportable(call.before)
    /\ Width(call.before) = kMaxRange - 1
    /\ call.asRange = kMaxRange + 1

\* A valid range whose width fits the word and is kMaxRange exactly: too
\* large.
C19_AtLimit ==
    /\ IsCardinality /\ ~IsBoolean
    /\ call.before.hasRange_ /\ ~call.before.rangeOverflow_
    /\ Width(call.before) = kMaxRange
    /\ call.asRange = kRangeTooLarge

\* A valid range whose width does not fit the word: too large.
C19_Overflow ==
    /\ IsCardinality /\ ~IsBoolean
    /\ call.before.hasRange_ /\ ~call.before.rangeOverflow_
    /\ ~FitsInt64(Width(call.before))
    /\ call.asRange = kRangeTooLarge

\* A BOOLEAN Hasher answered 3 and 3.
C19_Boolean ==
    /\ IsCardinality /\ IsBoolean
    /\ call.asRange = 3 /\ call.asDistincts = 3


\* C20: for a kind other than BOOLEAN cardinality() reports asDistincts =
\* |uniqueValues_| + 1 when distinctOverflow_ is clear and kRangeTooLarge
\* when it is set, whatever it reports for the range; when the range is
\* too large and distinctOverflow_ is set both outputs are kRangeTooLarge.
C20_AsDistincts ==
    (IsCardinality /\ ~IsBoolean) =>
        /\ call.asDistincts = IF call.before.distinctOverflow_ THEN kRangeTooLarge
                              ELSE Len(call.before.uniqueValues_) + 1
        /\ ~call.before.distinctOverflow_ => call.asDistincts # kRangeTooLarge
        /\ (hasher.rangeOverflow_ /\ hasher.distinctOverflow_) =>
               call.asRange = kRangeTooLarge /\ call.asDistincts = kRangeTooLarge

\* The range was too large and the count of distinct values was still
\* reported.
C20_Witness ==
    /\ IsCardinality /\ ~IsBoolean
    /\ call.asRange = kRangeTooLarge
    /\ ~call.before.distinctOverflow_
    /\ call.before.uniqueValues_ # <<>>
    /\ call.asDistincts = Len(call.before.uniqueValues_) + 1

\* The table had overflowed and the range was still reported.
C20_RangeOnly ==
    /\ IsCardinality /\ ~IsBoolean
    /\ call.before.distinctOverflow_
    /\ call.asDistincts = kRangeTooLarge
    /\ call.asRange # kRangeTooLarge

\* Both had overflowed.
C20_Both ==
    /\ IsCardinality /\ ~IsBoolean
    /\ hasher.rangeOverflow_ /\ hasher.distinctOverflow_
    /\ call.asRange = kRangeTooLarge /\ call.asDistincts = kRangeTooLarge


(***************************************************************************)
(* enableValueRange and enableValueIds.  'call.before' is the Hasher as    *)
(* the call found it; 'call.err' is the failed VELOX_CHECK.                *)
(***************************************************************************)
IsEnableRange == call.op = "enableValueRange"
IsEnableIds == call.op = "enableValueIds"

Half == call.reserve \div 2

\* min - reserve/2 and max + reserve/2 as integers, held at the ends of the
\* word.
LoweredMin == Greatest(kMin, call.before.min_ - Half)
RaisedMax == Least(kMax, call.before.max_ + Half)

\* multiplier * rangeSize_ as an integer, or kRangeTooLarge beyond the word.
CheckedProduct(multiplier, rangeSize) ==
    IF multiplier * rangeSize >= Two64 THEN kRangeTooLarge
    ELSE multiplier * rangeSize

\* C21: enableValueRange(multiplier, reserve) on a Hasher with a range
\* lowers min_ by reserve/2 and raises max_ by reserve/2, each held at the
\* end of the word, sets isRange_, sets rangeSize_ to max_ - min_ + 2 of the
\* widened bounds and returns multiplier * rangeSize_, or kRangeTooLarge
\* when the product does not fit 64 bits.
C21_EnableValueRange ==
    (IsEnableRange /\ call.before.hasRange_) =>
        /\ ~call.err
        /\ hasher.min_ = LoweredMin /\ hasher.max_ = RaisedMax
        /\ hasher.isRange_
        /\ hasher.rangeSize_ = RaisedMax - LoweredMin + 2
        /\ call.value = CheckedProduct(call.multiplier, RaisedMax - LoweredMin + 2)

\* The part of C21 on the bounds and the mode, which holds: both bounds
\* move by reserve/2 and stop at the ends of the word, and isRange_ is
\* set.
C21_Bounds ==
    (IsEnableRange /\ call.before.hasRange_) =>
        /\ ~call.err
        /\ hasher.min_ = LoweredMin /\ hasher.max_ = RaisedMax
        /\ hasher.isRange_

\* The lower bound stopped at kMin while the upper bound moved freely.
C21_Saturated ==
    /\ IsEnableRange /\ call.before.hasRange_
    /\ Half > 0
    /\ call.before.min_ - Half < kMin /\ hasher.min_ = kMin
    /\ hasher.max_ = call.before.max_ + Half

\* C22: enableValueRange on a Hasher with a range either sets rangeSize_ to
\* the integer (widened max_) - (widened min_) + 2 and returns the product
\* of multiplier and that integer, or returns kRangeTooLarge.
C22_CheckedArithmetic ==
    (IsEnableRange /\ call.before.hasRange_) =>
        \/ call.value = kRangeTooLarge
        \/ /\ hasher.rangeSize_ = hasher.max_ - hasher.min_ + 2
           /\ call.value = call.multiplier * (hasher.max_ - hasher.min_ + 2)

\* C23: enableValueIds(multiplier, reserve) clears isRange_, sets rangeSize_
\* to |uniqueValues_| + 1 + reserve, leaves the table, min_ and max_ as they
\* were and returns multiplier * rangeSize_, or kRangeTooLarge when the
\* product does not fit 64 bits.
C23_EnableValueIds ==
    IsEnableIds =>
        /\ ~hasher.isRange_
        /\ hasher.rangeSize_ = Len(call.before.uniqueValues_) + 1 + call.reserve
        /\ hasher.uniqueValues_ = call.before.uniqueValues_
        /\ hasher.min_ = call.before.min_ /\ hasher.max_ = call.before.max_
        /\ call.value = CheckedProduct(call.multiplier,
                                       Len(call.before.uniqueValues_) + 1 + call.reserve)

\* Two analysed strings, a reserve and a multiplier above 1, activated
\* from range mode: the product fits.
C23_Witness ==
    /\ IsEnableIds
    /\ hasher.typeKind_ = "VARCHAR"
    /\ Len(call.before.uniqueValues_) = 2
    /\ call.before.isRange_
    /\ call.reserve = 1 /\ call.multiplier = 3
    /\ hasher.rangeSize_ = 4 /\ call.value = 12

\* Three analysed strings, no reserve, multiplier 1: rangeSize_ is 4.
C23_ThreeStrings ==
    /\ IsEnableIds
    /\ hasher.typeKind_ = "VARCHAR"
    /\ Len(call.before.uniqueValues_) = 3
    /\ call.reserve = 0 /\ call.multiplier = 1
    /\ hasher.rangeSize_ = 4 /\ call.value = 4

\* The product did not fit.
C23_TooLarge ==
    /\ IsEnableIds
    /\ call.multiplier * hasher.rangeSize_ >= Two64
    /\ call.value = kRangeTooLarge

\* C26: enableValueRange on a Hasher without a range fails its check and
\* leaves isRange_ as it was: the call does not activate range mode.
C26_RequiresRange ==
    (IsEnableRange /\ ~call.before.hasRange_) =>
        /\ call.err
        /\ hasher.isRange_ = call.before.isRange_
        /\ hasher.rangeSize_ = call.before.rangeSize_
        /\ hasher.min_ = call.before.min_ /\ hasher.max_ = call.before.max_

\* The range had been analysed and was invalidated by a merge; the Hasher
\* was in distinct mode and stayed there.
C26_Witness ==
    /\ IsEnableRange
    /\ ~call.before.hasRange_ /\ call.before.rangeOverflow_
    /\ call.before.uniqueValues_ # <<>>
    /\ ~call.before.isRange_
    /\ call.err /\ ~hasher.isRange_

\* No value had been analysed at all.
C26_Fresh ==
    /\ IsEnableRange
    /\ call.before = NewHasher(hasher.typeKind_, 1)
    /\ call.err /\ ~hasher.isRange_


(***************************************************************************)
(* getFilter.                                                              *)
(***************************************************************************)
IsGetFilter == call.op = "getFilter"

ListedValues == {call.filter.values[i] : i \in 1..Len(call.filter.values)}

\* C24: getFilter returns a filter exactly when the kind is an integer kind
\* and distinctOverflow_ is clear; the filter lists the values of the
\* distinct table, each once, with the nullAllowed flag it was given; and
\* the Hasher is as it was.  Strings, booleans and overflowed Hashers get
\* no filter.
C24_GetFilter ==
    IsGetFilter =>
        /\ call.filter.present <=>
               (hasher.typeKind_ = "BIGINT" /\ ~call.before.distinctOverflow_)
        /\ call.filter.present =>
               /\ ListedValues = Values(call.before)
               /\ Len(call.filter.values) = Cardinality(Values(call.before))
               /\ call.filter.nullAllowed = call.nullAllowed
        /\ hasher = call.before

\* A filter of two values that admits nulls.
C24_Witness ==
    /\ IsGetFilter
    /\ call.filter.present
    /\ Cardinality(ListedValues) = 2
    /\ call.nullAllowed /\ call.filter.nullAllowed

\* An overflowed integer Hasher, a string Hasher with values and a boolean
\* Hasher with values got no filter.
C24_Overflowed ==
    /\ IsGetFilter /\ hasher.typeKind_ = "BIGINT"
    /\ hasher.distinctOverflow_ /\ ~call.filter.present

C24_String ==
    /\ IsGetFilter /\ hasher.typeKind_ = "VARCHAR"
    /\ hasher.uniqueValues_ # <<>> /\ ~hasher.distinctOverflow_
    /\ ~call.filter.present

C24_Boolean ==
    /\ IsGetFilter /\ hasher.typeKind_ = "BOOLEAN"
    /\ hasher.uniqueValues_ # <<>> /\ ~hasher.distinctOverflow_
    /\ ~call.filter.present


(***************************************************************************)
(* The bytes of the strings in the table.                                  *)
(***************************************************************************)
IsAnalysis == call.op \in {"analyze", "computeValueIds"}

\* The positions of the entries the call inserted.
Inserted == (Len(call.before.uniqueValues_) + 1)..Len(hasher.uniqueValues_)

\* C25: when analysis has inserted a string longer than a word, the entry
\* refers to the Hasher's own storage and not to the caller's input buffer
\* once the call is over, also when the insertion hit the kMaxDistinct or
\* the kMaxDistinctStringsBytes budget.
C25_EntriesOwned ==
    (IsAnalysis /\ hasher.typeKind_ = "VARCHAR") =>
        \A i \in Inserted :
            Len(hasher.uniqueValues_[i].data) > kInt64Bytes
                => hasher.uniqueValues_[i].ptr = "local"

\* The part of C25 that holds: an insertion that hits neither budget is
\* copied.
C25_OwnedWithinBudget ==
    (IsAnalysis /\ hasher.typeKind_ = "VARCHAR" /\ ~hasher.distinctOverflow_) =>
        \A i \in Inserted :
            Len(hasher.uniqueValues_[i].data) > kInt64Bytes
                => hasher.uniqueValues_[i].ptr = "local"

\* A long string was inserted as the value that exceeded kMaxDistinct and
\* still refers to the input.
C25_DanglingAtCount ==
    /\ IsAnalysis /\ hasher.typeKind_ = "VARCHAR"
    /\ Len(hasher.uniqueValues_) > kMaxDistinct
    /\ hasher.distinctStringsBytes_ <= kMaxDistinctStringsBytes
    /\ \E i \in Inserted : hasher.uniqueValues_[i].ptr = "input"

\* A long string was inserted when the bytes were over budget and still
\* refers to the input.
C25_DanglingAtBytes ==
    /\ IsAnalysis /\ hasher.typeKind_ = "VARCHAR"
    /\ Len(hasher.uniqueValues_) <= kMaxDistinct
    /\ \E i \in Inserted : hasher.uniqueValues_[i].ptr = "input"


(***************************************************************************)
(* What computeValueIds and computeValueIdsForRows leave in the output.    *)
(***************************************************************************)
IsForRows == call.op = "computeValueIdsForRows"

\* C27: computeValueIds leaves out[row] as it was for every row outside
\* the selection and for every selected row whose value has no id.
C27_UnmappableNotWritten ==
    IsCompute =>
        \A r \in DOMAIN call.result0 :
            (r \notin call.rows0 \/ (~isNullAt(call.decoded, r) /\ ~MappableBefore(r)))
                => call.result[r] = call.result0[r]

\* A call wrote the id of a selected row and left a later selected row,
\* whose value had no id, as it was.
C27_Witness ==
    /\ IsCompute /\ ~call.ret
    /\ \E r, q \in call.rows0 :
           /\ r < q
           /\ ~isNullAt(call.decoded, r) /\ MappableBefore(r)
           /\ call.result[r] = Emitted(r, IdBefore(r))
           /\ call.result[r] # call.result0[r]
           /\ ~isNullAt(call.decoded, q) /\ ~MappableBefore(q)
           /\ call.result[q] = call.result0[q]

\* The first row, from the top, that holds a value without an id; past the
\* last row when there is none.
FirstMiss ==
    LET misses == {r \in Rows : ~isNullAt(call.decoded, r) /\ ~MappableBefore(r)}
    IN IF misses = {} THEN MaxRows + 1
       ELSE CHOOSE r \in misses : \A q \in misses : r <= q

\* C28: computeValueIdsForRows on a string column returns false exactly
\* when a non-null row holds a value without an id; it has then written
\* the rows before the first such row, as emission does, and left the rows
\* from it onward untouched; and the Hasher, analysis state included, is
\* as the call found it.
C28_ForRowsStops ==
    IsForRows =>
        /\ call.ret <=> FirstMiss > MaxRows
        /\ \A r \in Rows :
               call.result[r] =
                   IF r >= FirstMiss THEN call.result0[r]
                   ELSE IF isNullAt(call.decoded, r)
                   THEN (IF call.before.multiplier_ = 1 THEN 0 ELSE call.result0[r])
                   ELSE Emitted(r, IdBefore(r))
        /\ hasher = call.before

\* The first row was mapped and written, the second had no id: the call
\* returned false and analysed nothing.
C28_Witness ==
    /\ IsForRows /\ ~call.ret
    /\ FirstMiss = 2
    /\ ~isNullAt(call.decoded, 1)
    /\ call.result[1] # call.result0[1]
    /\ call.result[2] = call.result0[2]
    /\ ~Contains(hasher.uniqueValues_, ValueOf(2))
    /\ ~hasher.distinctOverflow_


(***************************************************************************)
(* Ids under one activation.  The id a call emits for a value is valueId   *)
(* under the encoding the call finds (C8), so the ids emitted before and   *)
(* after an operation are valueId(call.before, v) and valueId(hasher, v).  *)
(***************************************************************************)
\* The operations that can come between two calls without a new
\* activation.
KeepsActivation ==
    call.op \in {"computeValueIds", "computeValueIdsForRows", "analyze", "merge"}

Universe == ValsOf(hasher.typeKind_)

IdAfter(v) == valueId(hasher, v)
IdEarlier(v) == valueId(call.before, v)

\* C30: under one activation a value that had id i has id i, or none, after
\* a computeValueIds, an analyze or a merge; and no id that one value had
\* before the operation is the id of another value after it.
C30_IdsStable ==
    KeepsActivation =>
        \A v \in Universe :
            IdEarlier(v) # kUnmappable =>
                /\ IdAfter(v) \in {IdEarlier(v), kUnmappable}
                /\ \A w \in Universe : IdAfter(w) = IdEarlier(v) => w = v

\* The part of C30 that holds: in distinct mode a value keeps its id and no
\* other value gets it.
C30_StableInDistinctMode ==
    (KeepsActivation /\ ~call.before.isRange_) =>
        \A v \in Universe :
            IdEarlier(v) # kUnmappable =>
                /\ IdAfter(v) = IdEarlier(v)
                /\ \A w \in Universe : IdAfter(w) = IdEarlier(v) => w = v

\* In range mode a computeValueIds that failed analysed a value below min_:
\* a value that had an id has another one now.
C30_ShiftedByFailure ==
    /\ IsCompute /\ ~call.ret
    /\ call.before.isRange_
    /\ hasher.typeKind_ = "BIGINT"
    /\ hasher.min_ < call.before.min_
    /\ \E v \in Universe :
           /\ IdEarlier(v) # kUnmappable
           /\ IdAfter(v) \notin {IdEarlier(v), kUnmappable}


(***************************************************************************)
(* The scratch buffers.  'call.before' holds cachedHashes_ as the call     *)
(* found it; 'hashes' of the caller is not changed by hash().              *)
(***************************************************************************)
\* The Hasher the call found, with nothing in its scratch buffer.
Fresh == [call.before EXCEPT !.cachedHashes_ = <<>>]

\* The same hash() call on the Hasher with a fresh buffer, and once more on
\* the Hasher as the call left it.
HashFresh == hashValues(Fresh, call.decoded, call.rows0, call.mix, call.result0)
HashAgain == hashValues(hasher, call.decoded, call.rows0, call.mix, call.result0)

\* The same lookupValueIds call with an empty scratch buffer, and once
\* more with the buffer as the call left it.
LookupFresh ==
    lookupValueIdsTyped(Fresh, call.decoded, call.rows0, <<>>, call.result0)
LookupAgain ==
    lookupValueIdsTyped(hasher, call.decoded, call.rows0, hashes, call.result0)

\* C29: what hash() and lookupValueIds write for a batch, a selection and
\* an initial output is what they write with fresh scratch buffers,
\* whatever earlier calls left in cachedHashes_ and in the caller's
\* buffer; and the same call made again writes the same.
C29_ScratchInvisible ==
    /\ IsHash =>
           /\ call.result = HashFresh.result
           /\ call.result = HashAgain.result
    /\ IsLookup =>
           /\ call.result = LookupFresh.result /\ call.rows = LookupFresh.rows
           /\ call.result = LookupAgain.result /\ call.rows = LookupAgain.rows

\* hash() of a dictionary batch found ids of an earlier computeValueIds in
\* cachedHashes_, at the base indices it then hashed.
C29_Witness ==
    /\ IsHash
    /\ call.decoded.enc = "dict"
    /\ \E r \in call.rows0 :
           /\ ~isNullAt(call.decoded, r)
           /\ Len(call.before.cachedHashes_) >= index(call.decoded, r)
           /\ call.before.cachedHashes_[index(call.decoded, r)] # kNullHash
           /\ call.before.cachedHashes_[index(call.decoded, r)]
                  = valueId(call.before, ValueOf(r))
           /\ call.before.cachedHashes_[index(call.decoded, r)]
                  # hashOne(hasher.typeKind_, call.decoded, r)

\* lookupValueIds of a dictionary batch left ids in the caller's buffer,
\* which the same call made again finds there.
C29_LookupAgain ==
    /\ IsLookup
    /\ call.decoded.enc = "dict"
    /\ \E i \in DOMAIN hashes : hashes[i] # 0
    /\ \E r \in call.rows0 : r \notin call.rows


(***************************************************************************)
(* The flags and the encoding over the life of a Hasher.                   *)
(***************************************************************************)
IsCall == call.op # "idle"

\* C31: no operation clears rangeOverflow_ or distinctOverflow_; with
\* rangeOverflow_ set, analysis (analyze, and the analysis done by a
\* computeValueIds that fails) leaves min_ and max_ alone; with
\* distinctOverflow_ set, analysis adds nothing to the distinct table.
C31_FlagsSticky ==
    IsCall =>
        /\ call.before.rangeOverflow_ => hasher.rangeOverflow_
        /\ call.before.distinctOverflow_ => hasher.distinctOverflow_
        /\ (IsAnalysis /\ call.before.rangeOverflow_) =>
               hasher.min_ = call.before.min_ /\ hasher.max_ = call.before.max_
        /\ (IsAnalysis /\ call.before.distinctOverflow_) =>
               hasher.uniqueValues_ = call.before.uniqueValues_


\* A Hasher with both flags set analysed a value below min_ that its table
\* does not hold, and is as it was.
C31_Witness ==
    /\ call.op = "analyze"
    /\ hasher.typeKind_ = "BIGINT"
    /\ call.before.rangeOverflow_ /\ call.before.distinctOverflow_
    /\ \E r \in Rows :
           /\ ~isNullAt(call.decoded, r)
           /\ ValueOf(r) < call.before.min_
           /\ ~Contains(call.before.uniqueValues_, ValueOf(r))
    /\ hasher = call.before

\* A merge with a peer whose range and table are valid left both flags of
\* the receiver set.
C31_MergeKeeps ==
    /\ call.op = "merge"
    /\ call.before.rangeOverflow_ /\ call.before.distinctOverflow_
    /\ RangeValid(call.other) /\ ~call.other.distinctOverflow_
    /\ hasher.rangeOverflow_ /\ hasher.distinctOverflow_


IsEnable == call.op \in {"enableValueIds", "enableValueRange"}

SameEncoding ==
    /\ hasher.isRange_ = call.before.isRange_
    /\ hasher.multiplier_ = call.before.multiplier_
    /\ hasher.rangeSize_ = call.before.rangeSize_

\* C32: isRange_, multiplier_ and rangeSize_ are written by enableValueRange
\* and enableValueIds only: hash, computeValueIds, computeValueIdsForRows,
\* lookupValueIds, analyze, cardinality, merge and getFilter leave all three
\* as they found them.
C32_EncodingFrame ==
    (IsCall /\ ~IsEnable) => SameEncoding

\* A computeValueIds in range mode under multiplier 3 failed and lowered
\* min_; the encoding is the one it found.
C32_Witness ==
    /\ call.op = "computeValueIds" /\ ~call.ret
    /\ call.before.isRange_ /\ call.before.multiplier_ = 3
    /\ hasher.min_ < call.before.min_
    /\ SameEncoding

\* A merge in distinct mode under multiplier 3 added an entry to the table;
\* the encoding is the one it found.
C32_MergeKeeps ==
    /\ call.op = "merge"
    /\ ~call.before.isRange_ /\ call.before.multiplier_ = 3
    /\ call.before.rangeSize_ > 0
    /\ Len(hasher.uniqueValues_) > Len(call.before.uniqueValues_)
    /\ SameEncoding

\* A merge that invalidated the range of a Hasher in range mode left it in
\* range mode.
C32_MergeInvalidates ==
    /\ call.op = "merge"
    /\ call.before.isRange_ /\ ~call.before.rangeOverflow_
    /\ hasher.rangeOverflow_
    /\ SameEncoding


\* The analysis state of a Hasher: the range, the two overflow flags and the
\* distinct table as value and id.
AnalysisState(h) ==
    [min |-> h.min_, max |-> h.max_, hasRange |-> h.hasRange_,
     rangeOverflow |-> h.rangeOverflow_,
     distinctOverflow |-> h.distinctOverflow_,
     distincts |-> {<<h.uniqueValues_[i].data, h.uniqueValues_[i].id>> :
                       i \in DOMAIN h.uniqueValues_}]

(***************************************************************************)
(* C33: from the same Hasher state, a computeValueIds that fails leaves    *)
(* the same min_, max_, overflow flags and distinct table (values and ids) *)
(* on the flat view and on the dictionary view of a logical sequence, for  *)
(* the same selection.                                                     *)
(***************************************************************************)
C33_AnalysisSameOnBothViews ==
    (IsCompute /\ ~isConstantMapping(call.decoded) /\ ~call.ret) =>
        AnalysisState(hasher) = AnalysisState(OnOtherView.h)


\* The selected rows after the first unmappable one that repeat a value
\* mapped before it: the dictionary path finds their id in the cache.
Repeats ==
    {r \in SelectedNonNull :
        /\ r > FirstUnmappable
        /\ \E q \in SelectedNonNull : q < FirstUnmappable /\ ValueOf(q) = ValueOf(r)}

AfterFlat == IF call.decoded.enc = "flat" THEN hasher ELSE OnOtherView.h

AfterDictionary == IF call.decoded.enc = "dict" THEN hasher ELSE OnOtherView.h

\* The Hasher the flat path leaves when the repeating rows are taken out of
\* the selection.
AfterFlatWithoutRepeats ==
    makeValueIds(call.before, FlatView(LogicalOf(call.decoded)),
                 call.rows0 \ Repeats, call.result0).h

(***************************************************************************)
(* C33: a computeValueIds that fails leaves the same analysis state on the *)
(* flat and on the dictionary view unless a row after the first unmappable *)
(* one repeats a value mapped before it; the dictionary path does not      *)
(* analyse such a row, and leaves the analysis state the flat path leaves  *)
(* on the selection without these rows.                                    *)
(***************************************************************************)
C33_AnalysisSameButRepeats ==
    (IsCompute /\ ~isConstantMapping(call.decoded) /\ ~call.ret) =>
        /\ ~OnOtherView.success
        /\ Repeats = {} => AnalysisState(AfterFlat) = AnalysisState(AfterDictionary)
        /\ AnalysisState(AfterDictionary) = AnalysisState(AfterFlatWithoutRepeats)

\* A failed call analysed the unmappable row and a row after it, none of
\* them a repeat: both views leave the same analysis state, which is not
\* the one the call found.
C33_Witness ==
    /\ IsCompute /\ ~isConstantMapping(call.decoded) /\ ~call.ret
    /\ Repeats = {}
    /\ \E r \in SelectedNonNull : r > FirstUnmappable
    /\ Len(hasher.uniqueValues_) >= Len(call.before.uniqueValues_) + 2
    /\ AnalysisState(AfterFlat) = AnalysisState(AfterDictionary)

\* A batch x, y, x with y unmappable and x in the range but not in the
\* table: the flat path adds x to the table, the dictionary path does not.
C33_RepeatNotAnalysed ==
    /\ IsCompute /\ ~isConstantMapping(call.decoded) /\ ~call.ret
    /\ \E r \in Repeats :
           /\ Contains(AfterFlat.uniqueValues_, ValueOf(r))
           /\ ~Contains(AfterDictionary.uniqueValues_, ValueOf(r))
    /\ AnalysisState(AfterDictionary) = AnalysisState(AfterFlatWithoutRepeats)


====
